---- MODULE Spec2Model ----
(***************************************************************************)
(* A model of the lz-fear LZ4 codec: the raw block encoder (compress2 with *)
(* its U32Table), the raw block decoder (decompress_raw, copy_overlapping) *)
(* and the frame writer and reader built on them.                          *)
(*                                                                         *)
(* Byte buffers are sequences of numbers in 0..255.  Rust indices are      *)
(* 0-based; the helpers At and Slice take 0-based indices.                 *)
(***************************************************************************)
EXTENDS Integers, Sequences, FiniteSets, TLC

----------------------------------------------------------------------------
(* Helpers on numbers and byte buffers *)

Min(a, b) == IF a <= b THEN a ELSE b

Max(a, b) == IF a >= b THEN a ELSE b

RECURSIVE Pow2(_)
Pow2(n) == IF n <= 0 THEN 1 ELSE 2 * Pow2(n - 1)

\* s[i] with a 0-based index
At(s, i) == s[i + 1]

\* s[a..b] in Rust's notation: the elements with 0-based index in [a, b)
Slice(s, a, b) == SubSeq(s, a + 1, b)

\* vec![0; n]
Zeros(n) == [i \in 1..n |-> 0]

\* vec![b; n]
Fill(b, n) == [i \in 1..n |-> b]

\* The little-endian bytes of a 16-bit and of a 32-bit number
U16LE(n) == <<n % 256, (n \div 256) % 256>>

U32LE(n) == <<n % 256, (n \div 256) % 256, (n \div 65536) % 256, (n \div 16777216) % 256>>

----------------------------------------------------------------------------
(* raw/compress/mod.rs: the hash table *)

HASHLOG == 12

MINMATCH == 4

ACCELERATION == 1

SKIP_TRIGGER == 6

\* size_of::<usize>() on a 64-bit target
REGSIZE == 8

\* The smallest block size of the frame format is 2^16 bytes in the source
\* (block-maxsize code 4); the model scales all four block sizes, the window
\* and the largest offset down so that the smallest block is 2^MinBlockLog.
MinBlockLog == 4

\* 64 * 1024 in the source, the smallest block size
WINDOW_SIZE == Pow2(MinBlockLog)

\* 0xFFFF in the source: one less than the window
MAX_OFFSET == WINDOW_SIZE - 1

\* 889523592379 as eight little-endian 8-bit limbs
HASH_PRIME == <<187, 220, 188, 27, 207, 0, 0, 0>>

RECURSIVE ColumnSum(_, _, _, _)
ColumnSum(a, c, k, i) ==
  IF i > k THEN 0 ELSE At(a, i) * At(c, k - i) + ColumnSum(a, c, k, i + 1)

RECURSIVE MulLimbs(_, _, _, _)
MulLimbs(a, c, k, carry) ==
  IF k > 7 THEN <<>>
  ELSE LET s == ColumnSum(a, c, k, 0) + carry
       IN  <<s % 256>> \o MulLimbs(a, c, k + 1, s \div 256)

\* u64::wrapping_mul on eight little-endian limbs
wrapping_mul(a, c) == MulLimbs(a, c, 0, 0)

\* (v << 24).wrapping_mul(889523592379), v the first 8 bytes read little-endian
checksum_u64(v) == wrapping_mul(<<0, 0, 0, v[1], v[2], v[3], v[4], v[5]>>, HASH_PRIME)

\* hash_for_u32(&input[offset..]): the top HASHLOG bits of the checksum of the
\* first 8 bytes, or of 0 when fewer than 8 bytes are left
hash_for_u32(input, offset) ==
  IF Len(input) - offset < 8 THEN 0
  ELSE LET p == checksum_u64(Slice(input, offset, offset + 8))
       IN  (p[8] * 256 + p[7]) \div Pow2(16 - HASHLOG)

\* U32Table::default(): no slot written (every slot reads 0), offset 0.
\* dict holds the slots whose value is not 0.
U32Table_default == [dict |-> [h \in {} |-> 0], offset |-> 0]

TableGet(dict, h) == IF h \in DOMAIN dict THEN dict[h] ELSE 0

TablePut(dict, h, v) ==
  IF v = 0 THEN [x \in DOMAIN dict \ {h} |-> dict[x]]
  ELSE [x \in DOMAIN dict \cup {h} |-> IF x = h THEN v ELSE dict[x]]

\* The value replace stores for a position
StoredValue(table, offset) == offset + table.offset

\* u32::MAX, the largest value a slot of the U32Table holds, scaled with the
\* window: four windows here, 65536 windows in the source
SlotMax == 4 * WINDOW_SIZE - 1

\* o.try_into().expect("EncoderTable contract violated"): whether replace
\* panics for the position offset
SlotOverflow(table, offset) == StoredValue(table, offset) > SlotMax

\* The value replace hands back for what the slot held
LoadedValue(table, value) == Max(value - table.offset, 0)

\* U32Table::replace: [table, value]
replace(table, input, offset) ==
  LET o == StoredValue(table, offset)
      h == hash_for_u32(input, offset)
  IN  [table |-> [table EXCEPT !.dict = TablePut(table.dict, h, o)],
       value |-> LoadedValue(table, TableGet(table.dict, h))]

\* The mutant of table_offset: the table does not slide
table_offset_ignored(table, d) == table

\* U32Table::offset
table_offset(table, d) == [table EXCEPT !.offset = @ + d]

----------------------------------------------------------------------------
(* raw/compress/mod.rs: the writer, LSIC and write_group *)

\* A Write sink: buf is what was written, room the bytes left (-1: a Vec,
\* unbounded), ok turns FALSE at the first failed write, after which the `?`
\* of the caller returns and nothing more is written.
VecWriter == [buf |-> <<>>, room |-> -1, ok |-> TRUE]

\* The mutant of NoPartialWrites: a sink that takes whatever is written
NoPartialWritesUnbounded(cap) == [buf |-> <<>>, room |-> -1, ok |-> TRUE]

\* NoPartialWrites(&mut out_buffer[..cap])
NoPartialWrites(cap) == [buf |-> <<>>, room |-> cap, ok |-> TRUE]

\* Write::write_all of one buffer: a single write call, all or nothing
write_all(w, data) ==
  IF ~w.ok \/ data = <<>> THEN w
  ELSE IF w.room = -1 THEN [w EXCEPT !.buf = @ \o data]
  ELSE IF w.room < Len(data) THEN [w EXCEPT !.ok = FALSE]
  ELSE [w EXCEPT !.buf = @ \o data, !.room = @ - Len(data)]

\* write_lsic_head: the nibble of the token
write_lsic_head(value) == Min(value, 15)

\* The mutant of lsic_u32_loop: three bytes for 4 * 0xFF
RECURSIVE lsic_u32_loop_short(_, _)
lsic_u32_loop_short(w, value) ==
  IF value >= 4 * 255
  THEN lsic_u32_loop_short(write_all(w, <<255, 255, 255>>), value - 4 * 255)
  ELSE [w |-> w, value |-> value]

RECURSIVE lsic_u32_loop(_, _)
lsic_u32_loop(w, value) ==
  IF value >= 4 * 255
  THEN lsic_u32_loop(write_all(w, <<255, 255, 255, 255>>), value - 4 * 255)
  ELSE [w |-> w, value |-> value]

RECURSIVE lsic_u8_loop(_, _)
lsic_u8_loop(w, value) ==
  IF value >= 255
  THEN lsic_u8_loop(write_all(w, <<255>>), value - 255)
  ELSE [w |-> w, value |-> value]

write_lsic_tail(w, value) ==
  IF value < 15 THEN w
  ELSE LET a == lsic_u32_loop(w, value - 15)
           b == lsic_u8_loop(a.w, a.value)
       IN  write_all(b.w, <<b.value>>)

\* write_group: token, literal length tail, literals, offset, match length tail
write_group(w, literal, duplicate) ==
  LET token == write_lsic_head(Len(literal)) * 16 + write_lsic_head(duplicate.extra_bytes)
      w1 == write_all(w, <<token>>)
      w2 == write_lsic_tail(w1, Len(literal))
      w3 == write_all(w2, literal)
      w4 == write_all(w3, U16LE(duplicate.offset))
  IN  write_lsic_tail(w4, duplicate.extra_bytes)

\* The mutant of write_tail: the literal length in the low nibble
write_tail_low_nibble(w, literal) ==
  LET w1 == write_all(w, <<write_lsic_head(Len(literal))>>)
      w2 == write_lsic_tail(w1, Len(literal))
  IN  write_all(w2, literal)

\* The final literal-only sequence of compress2
write_tail(w, literal) ==
  LET w1 == write_all(w, <<write_lsic_head(Len(literal)) * 16>>)
      w2 == write_lsic_tail(w1, Len(literal))
  IN  write_all(w2, literal)

----------------------------------------------------------------------------
(* raw/compress/mod.rs: count_matching_bytes and compress2 *)

\* FirstDiff with the byte count rounded up: the differing byte is counted
RECURSIVE FirstDiffRoundedUp(_, _, _)
FirstDiffRoundedUp(a, b, i) ==
  IF i >= REGSIZE THEN REGSIZE
  ELSE IF At(a, i) # At(b, i) THEN i + 1
  ELSE FirstDiffRoundedUp(a, b, i + 1)

\* The index of the first byte in which two REGSIZE-byte words differ
\* (trailing_zeros(a ^ b) / 8 on a little-endian target); REGSIZE if none does
RECURSIVE FirstDiff(_, _, _)
FirstDiff(a, b, i) ==
  IF i >= REGSIZE THEN REGSIZE
  ELSE IF At(a, i) # At(b, i) THEN i
  ELSE FirstDiff(a, b, i + 1)

\* The loop over chunks_exact(REGSIZE) of both slices, zipped
RECURSIVE MatchChunks(_, _, _)
MatchChunks(a, b, n) ==
  IF n + REGSIZE > Len(a) \/ n + REGSIZE > Len(b) THEN [n |-> n, diff |-> FALSE]
  ELSE LET d == FirstDiff(Slice(a, n, n + REGSIZE), Slice(b, n, n + REGSIZE), 0)
       IN  IF d = REGSIZE THEN MatchChunks(a, b, n + REGSIZE)
           ELSE [n |-> n + d, diff |-> TRUE]

\* a.iter().zip(b).skip(n).take_while(|(a, b)| a == b).count()
RECURSIVE TrailingMatches(_, _, _)
TrailingMatches(a, b, n) ==
  IF n < Len(a) /\ n < Len(b) /\ At(a, n) = At(b, n)
  THEN 1 + TrailingMatches(a, b, n + 1)
  ELSE 0

count_matching_bytes(a, b) ==
  LET c == MatchChunks(a, b, 0)
  IN  IF c.diff THEN c.n ELSE c.n + TrailingMatches(a, b, c.n)

\* The backtrack of compress2: how many bytes before cursor equal the bytes
\* before candidate, at most max_backtrack of them
RECURSIVE Backtrack(_, _, _, _, _)
Backtrack(input, cursor, candidate, max_backtrack, k) ==
  IF k < max_backtrack /\ k < cursor /\ k < candidate
     /\ At(input, cursor - 1 - k) = At(input, candidate - 1 - k)
  THEN Backtrack(input, cursor, candidate, max_backtrack, k + 1)
  ELSE k

\* The mutant of AcceptCandidate: any distance is taken
AcceptAnyCandidate(cursor, init_cursor, candidate) == cursor # init_cursor

\* Whether compress2 takes the candidate that replace returned for cursor
AcceptCandidate(cursor, init_cursor, candidate) ==
  cursor # init_cursor /\ cursor - candidate <= MAX_OFFSET

\* How many bytes of the end of the input compress2 keeps out of every match
TailLiterals == 5

\* compress2 ends with a literal-only sequence when fewer bytes are left
TailGuard == 12

\* The inner `loop` of compress2 from one cursor position on: either the tail
\* is reached ("tail"), or a duplicate is found ("dup": the Duplicate, the
\* cursor past the match, the start of the match after the backtrack), or
\* replace is given a position its slot cannot hold or cursor - candidate
\* underflows ("panic").
\* The mutant of TailReached: the search goes on while a match still fits
TailReachedLate(input, cursor) ==
  Max(Len(input) - cursor, 0) < TailLiterals + MINMATCH

\* input.len().saturating_sub(cursor) < 12: compress2 ends with the literals
TailReached(input, cursor) == Max(Len(input) - cursor, 0) < TailGuard

\* The mutant of CurrentBatch: a match may run to the end of the input
CurrentBatchToEnd(input, cursor) == Slice(input, cursor, Len(input))

\* current_batch: the bytes from cursor on that a match may cover
CurrentBatch(input, cursor) == Slice(input, cursor, Len(input) - TailLiterals)

RECURSIVE FindDuplicate(_, _, _, _, _, _, _)
FindDuplicate(input, init_cursor, literal_start, cursor, step, step_counter, table) ==
  IF TailReached(input, cursor)
  THEN [kind |-> "tail", table |-> table]
  ELSE LET r == replace(table, input, cursor)
           candidate == r.value
           current_batch == CurrentBatch(input, cursor)
           matching_bytes == count_matching_bytes(current_batch,
                                                  Slice(input, candidate, Len(input)))
           next_cursor == cursor + step
           next_counter == IF literal_start + 1 # next_cursor
                           THEN step_counter + 1 ELSE step_counter
           no_match == FindDuplicate(input, init_cursor, literal_start, next_cursor,
                                     step_counter \div Pow2(SKIP_TRIGGER), next_counter,
                                     r.table)
       IN  IF SlotOverflow(table, cursor)
           THEN [kind |-> "panic", table |-> table]
           ELSE IF cursor # init_cursor /\ candidate > cursor
           THEN [kind |-> "panic", table |-> r.table]
           ELSE IF AcceptCandidate(cursor, init_cursor, candidate)
                   /\ matching_bytes >= MINMATCH
           THEN LET backtrack == Backtrack(input, cursor, candidate,
                                           cursor - literal_start, 0)
                    end == cursor + matching_bytes
                IN  IF SlotOverflow(r.table, end - 2)
                    THEN [kind |-> "panic", table |-> r.table]
                    ELSE
                    [kind |-> "dup",
                     offset |-> cursor - candidate,
                     extra_bytes |-> matching_bytes - MINMATCH + backtrack,
                     cursor |-> end,
                     table |-> replace(r.table, input, end - 2).table]
           ELSE no_match

\* The outer `while` of compress2: [w, table, seqs, panic]; seqs lists the
\* sequences written, each with its literal range and (for a match) its
\* Duplicate and the index at which the match starts.
RECURSIVE Compress2Loop(_, _, _, _, _, _)
RECURSIVE WriteSequence(_, _, _, _, _, _)
Compress2Loop(input, init_cursor, cursor, table, w, seqs) ==
  IF cursor >= Len(input)
  THEN [w |-> w, table |-> table, seqs |-> seqs, panic |-> FALSE]
  ELSE WriteSequence(input, init_cursor, cursor, w, seqs,
                     FindDuplicate(input, init_cursor, cursor, cursor, 1,
                                   ACCELERATION * Pow2(SKIP_TRIGGER), table))

\* What the outer `while` does with the outcome d of its inner `loop`: the
\* final literals when the tail is reached, else one group and the next turn
WriteSequence(input, init_cursor, literal_start, w, seqs, d) ==
  IF d.kind = "panic"
  THEN [w |-> w, table |-> d.table, seqs |-> seqs, panic |-> TRUE]
  ELSE IF d.kind = "tail"
  THEN [w |-> write_tail(w, Slice(input, literal_start, Len(input))),
        table |-> d.table,
        seqs |-> Append(seqs, [literal_start |-> literal_start,
                               literal_end |-> Len(input),
                               match |-> FALSE, offset |-> 0,
                               extra_bytes |-> 0]),
        panic |-> FALSE]
  ELSE LET literal_end == d.cursor - d.extra_bytes - MINMATCH
           w2 == write_group(w, Slice(input, literal_start, literal_end),
                             [offset |-> d.offset, extra_bytes |-> d.extra_bytes])
           seqs2 == Append(seqs, [literal_start |-> literal_start,
                                  literal_end |-> literal_end,
                                  match |-> TRUE, offset |-> d.offset,
                                  extra_bytes |-> d.extra_bytes])
       IN  IF ~w2.ok
           THEN [w |-> w2, table |-> d.table, seqs |-> seqs2, panic |-> FALSE]
           ELSE Compress2Loop(input, init_cursor, d.cursor, d.table, w2, seqs2)

\* compress2(input, cursor, table, writer)
compress2(input, cursor, table, w) == Compress2Loop(input, cursor, cursor, table, w, <<>>)

----------------------------------------------------------------------------
(* raw/decompress.rs *)

\* read_lsic(initial, cursor): [ok, value, pos]; ok is FALSE when read_u8
\* meets the end of the input
RECURSIVE read_lsic_loop(_, _, _)
read_lsic_loop(input, pos, value) ==
  IF pos >= Len(input) THEN [ok |-> FALSE, value |-> value, pos |-> pos]
  ELSE LET more == At(input, pos)
       IN  IF more # 255 THEN [ok |-> TRUE, value |-> value + more, pos |-> pos + 1]
           ELSE read_lsic_loop(input, pos + 1, value + more)

read_lsic(initial, input, pos) ==
  IF initial = 15 THEN read_lsic_loop(input, pos, initial)
  ELSE [ok |-> TRUE, value |-> initial, pos |-> pos]

\* The mutant of StagingBuf: only the first chunk of the buffer is filled
StagingBufFirstChunk(pattern, offset) ==
  [i \in 1..16 |-> IF i <= offset THEN At(pattern, i - 1) ELSE 0]

\* The 16-byte staging buffer of the offset 2/4/8 path
StagingBuf(pattern, offset) == [i \in 1..16 |-> At(pattern, (i - 1) % offset)]

\* The slowest path: push output[old_len - offset + i] for i in 0..match_len
RECURSIVE CopyBytewise(_, _, _, _, _)
CopyBytewise(output, old_len, offset, match_len, i) ==
  IF i >= match_len THEN output
  ELSE CopyBytewise(Append(output, At(output, old_len - offset + i)),
                    old_len, offset, match_len, i + 1)

\* OffsetError with the two error variants confused for offset 0
OffsetErrorConfused(offset, old_len, prefix_len) ==
  IF offset = 0 \/ (offset > old_len /\ offset - old_len > prefix_len)
  THEN "InvalidDeduplicationOffset"
  ELSE ""

\* The error copy_overlapping returns for an offset, "" if none: the arm
\* `0 =>`, and the check of prefix_needed in the arm `i if i > old_len =>`
OffsetError(offset, old_len, prefix_len) ==
  IF offset = 0 THEN "ZeroDeduplicationOffset"
  ELSE IF offset > old_len /\ offset - old_len > prefix_len
  THEN "InvalidDeduplicationOffset"
  ELSE ""

\* copy_overlapping: [err, output], err "" for Ok(())
RECURSIVE copy_overlapping(_, _, _, _)
copy_overlapping(offset, match_len, prefix, output) ==
  LET old_len == Len(output)
      err == OffsetError(offset, old_len, Len(prefix))
  IN  IF err # "" THEN [err |-> err, output |-> output]
      ELSE IF offset > old_len
      THEN LET prefix_needed == offset - old_len
               how_many == Min(prefix_needed, match_len)
               out2 == output \o SubSeq(Slice(prefix, Len(prefix) - prefix_needed,
                                              Len(prefix)), 1, how_many)
               remaining_len == match_len - how_many
           IN  IF remaining_len # 0
               THEN copy_overlapping(offset, remaining_len, <<>>, out2)
               ELSE [err |-> "", output |-> out2]
      ELSE IF offset = 1
      THEN [err |-> "", output |-> output \o Fill(At(output, old_len - 1), match_len)]
      ELSE IF match_len <= offset
      THEN [err |-> "",
            output |-> output \o SubSeq(Slice(output, old_len - offset, old_len),
                                        1, match_len)]
      ELSE IF offset \in {2, 4, 8}
      THEN LET buf == StagingBuf(Slice(output, old_len - offset, old_len), offset)
           IN  [err |-> "",
                output |-> output \o [i \in 1..match_len |-> At(buf, (i - 1) % 16)]]
      ELSE [err |-> "",
            output |-> CopyBytewise(output, old_len, offset, match_len, 0)]

\* Where a Cursor stands after a read_exact that fails for lack of bytes:
\* older standard libraries leave the position alone, newer ones move it
\* to the end of the input.
PosAfterFailedRead(input, pos, eof_consumes) == IF eof_consumes THEN Len(input) ELSE pos

\* The state of one decompress_raw call.  phase is the place in the loop
\* body ("token", "literals", "match") or "done"; result is "" while the
\* call runs and "Ok" or the DecodeError at the end.  The other fields
\* describe the call for the properties: cut is the part of a sequence in
\* which the input ended ("literal_length", "literals", "match_length"),
\* cut_offset whether the input ended after one byte of an offset, and
\* match_at, offset, match_len the output length at which the match of the
\* current sequence was copied, its offset and its length.
DecInit(output) ==
  [phase |-> "token", pos |-> 0, output |-> output, token |-> 0,
   literal_length |-> 0, result |-> "",
   cut |-> "", cut_offset |-> FALSE, match_at |-> -1, offset |-> -1,
   match_len |-> -1]

DecDone(d, result) == [d EXCEPT !.phase = "done", !.result = result]

\* Whether the match of a sequence must be refused for the output limit
OverLimit(out_len, match_len, output_limit) == out_len + match_len > output_limit

\* The token and the literal length, then output.resize
DecToken(input, d) ==
  IF d.pos >= Len(input) THEN DecDone(d, "Ok")
  ELSE LET token == At(input, d.pos)
           l == read_lsic(token \div 16, input, d.pos + 1)
       IN  IF ~l.ok
           THEN DecDone([d EXCEPT !.token = token, !.pos = l.pos,
                                  !.cut = "literal_length"], "UnexpectedEnd")
           ELSE [d EXCEPT !.phase = "literals", !.token = token, !.pos = l.pos,
                          !.literal_length = l.value,
                          !.output = @ \o Zeros(l.value),
                          !.cut = "", !.match_at = -1, !.offset = -1,
                          !.match_len = -1]

\* reader.read_exact(&mut output[output_pos_pre_literal..])
DecLiterals(input, eof_consumes, d) ==
  LET pre == Len(d.output) - d.literal_length
  IN  IF Len(input) - d.pos < d.literal_length
      THEN DecDone([d EXCEPT !.pos = PosAfterFailedRead(input, d.pos, eof_consumes),
                             !.cut = "literals"], "UnexpectedEnd")
      ELSE [d EXCEPT !.phase = "match", !.pos = @ + d.literal_length,
                     !.output = SubSeq(d.output, 1, pre)
                                \o Slice(input, d.pos, d.pos + d.literal_length)]

\* The offset, the match length, the limit and copy_overlapping
DecMatch(input, prefix, output_limit, eof_consumes, d) ==
  IF Len(input) - d.pos < 2
  THEN [d EXCEPT !.phase = "token",
                 !.pos = PosAfterFailedRead(input, d.pos, eof_consumes),
                 !.cut_offset = @ \/ Len(input) - d.pos = 1]
  ELSE LET offset == At(input, d.pos) + 256 * At(input, d.pos + 1)
           m == read_lsic(d.token % 16, input, d.pos + 2)
           match_len == 4 + m.value
           c == copy_overlapping(offset, match_len, prefix, d.output)
       IN  IF ~m.ok
           THEN DecDone([d EXCEPT !.pos = m.pos, !.cut = "match_length"],
                        "UnexpectedEnd")
           ELSE IF OverLimit(Len(d.output), match_len, output_limit)
           THEN DecDone([d EXCEPT !.pos = m.pos], "MemoryLimitExceeded")
           ELSE LET d2 == [d EXCEPT !.pos = m.pos, !.output = c.output,
                                    !.match_at = Len(d.output), !.offset = offset,
                                    !.match_len = match_len]
                IN  IF c.err # "" THEN DecDone(d2, c.err)
                    ELSE [d2 EXCEPT !.phase = "token"]

\* One step of the loop of decompress_raw
DecStep(input, prefix, output_limit, eof_consumes, d) ==
  IF d.phase = "token" THEN DecToken(input, d)
  ELSE IF d.phase = "literals" THEN DecLiterals(input, eof_consumes, d)
  ELSE DecMatch(input, prefix, output_limit, eof_consumes, d)

RECURSIVE DecRun(_, _, _, _, _)
DecRun(input, prefix, output_limit, eof_consumes, d) ==
  IF d.phase = "done" THEN d
  ELSE DecRun(input, prefix, output_limit, eof_consumes,
              DecStep(input, prefix, output_limit, eof_consumes, d))

\* decompress_raw(input, prefix, output, output_limit): the final state
decompress_raw(input, prefix, output, output_limit, eof_consumes) ==
  DecRun(input, prefix, output_limit, eof_consumes, DecInit(output))

----------------------------------------------------------------------------
(* header.rs and framed/mod.rs *)

\* The little-endian bytes of MAGIC = 0x184D2204
MAGIC == <<4, 34, 77, 24>>

\* INCOMPRESSIBLE = 1 << 31: bit 7 of the fourth byte of a length prefix
INCOMPRESSIBLE_BIT == 128

\* The bits of Flags
FlagBits ==
  [IndependentBlocks |-> 32, BlockChecksums |-> 16, ContentSize |-> 8,
   ContentChecksum |-> 4, DictionaryId |-> 1]

FlagNames == DOMAIN FlagBits

RECURSIVE SumBits(_)
SumBits(fs) ==
  IF fs = {} THEN 0
  ELSE LET f == CHOOSE x \in fs : TRUE IN FlagBits[f] + SumBits(fs \ {f})

\* Flags::bits
flags_bits(flags) == SumBits(flags)

\* Whether bit `bit` (a power of two) is set in byte i
BitSet(i, bit) == (i \div bit) % 2 = 1

\* The mutant of from_bits_truncate: only the low four bits are kept
from_bits_low_nibble(i) == {f \in FlagNames : FlagBits[f] < 16 /\ BitSet(i, FlagBits[f])}

\* Flags::from_bits_truncate
from_bits_truncate(i) == {f \in FlagNames : BitSet(i, FlagBits[f])}

\* The mutant of Flags_parse: the reserved bit is not looked at
Flags_parse_version_only(i) ==
  IF i \div 64 # 1 THEN [err |-> "UnsupportedVersion", flags |-> {}]
  ELSE [err |-> "", flags |-> from_bits_truncate(i)]

\* Flags::parse: [err, flags]
Flags_parse(i) ==
  IF i \div 64 # 1 THEN [err |-> "UnsupportedVersion", flags |-> {}]
  ELSE IF BitSet(i, 2) THEN [err |-> "ReservedFlagBitsSet", flags |-> {}]
  ELSE [err |-> "", flags |-> from_bits_truncate(i)]

\* The block sizes are 1 << (size * 2 + 8) in the source; scaled to the
\* smallest block of the model, the 8 becomes MinBlockLog - 8
BlockShift == MinBlockLog - 8

\* BlockDescriptor::parse: [err, bd]
BlockDescriptor_parse(i) ==
  IF i >= 128 \/ i % 16 # 0 THEN [err |-> "ReservedBdBitsSet", bd |-> i]
  ELSE [err |-> "", bd |-> i]

\* BlockDescriptor::block_maxsize: [err, size]
block_maxsize(bd) ==
  LET size == (bd \div 16) % 8
  IN  IF size >= 4 /\ size < 8
      THEN [err |-> "", size |-> Pow2(size * 2 + BlockShift)]
      ELSE [err |-> "UnimplementedBlocksize", size |-> 0]

\* usize::trailing_zeros on a 64-bit target
RECURSIVE trailing_zeros(_)
trailing_zeros(n) ==
  IF n = 0 THEN 64
  ELSE IF n % 2 = 1 THEN 0
  ELSE 1 + trailing_zeros(n \div 2)

\* BlockDescriptor::new: the unwraps and the assert_eq panic, and nothing
\* else happens to a size that is not a block size
BlockDescriptor_new(block_size) ==
  LET maybe_maxsize == (Max(trailing_zeros(block_size) - BlockShift, 0) \div 2) % 256
      p == BlockDescriptor_parse((maybe_maxsize * 16) % 256)
      m == block_maxsize(p.bd)
  IN  IF p.err # "" \/ m.err # "" \/ m.size # block_size
      THEN [kind |-> "panic", bd |-> 0]
      ELSE [kind |-> "some", bd |-> p.bd]

----------------------------------------------------------------------------
(* XxHash32 of the twox_hash crate, which is not part of the repository.
   The model puts a position-sensitive 32-bit checksum in its place: two
   16-bit polynomial sums.  A hasher is the bytes written to it so far. *)

RECURSIVE PolySum(_, _, _, _)
PolySum(data, i, k, m) ==
  IF i = 0 THEN Len(data) + 1
  ELSE (PolySum(data, i - 1, k, m) * k + data[i] + 1) % m

\* hasher.finish() as u32, as four little-endian bytes
xxh32(data) ==
  U16LE(PolySum(data, Len(data), 251, 65521)) \o U16LE(PolySum(data, Len(data), 239, 65519))

\* The little-endian bytes of a u64 below 2^31
U64LE(n) == U32LE(n) \o <<0, 0, 0, 0>>

\* read_u32::<LE> and read_u64::<LE>: the number of little-endian bytes
RECURSIVE read_le(_)
read_le(bytes) ==
  IF bytes = <<>> THEN 0 ELSE bytes[1] + 256 * read_le(Tail(bytes))

----------------------------------------------------------------------------
(* framed/compress.rs: CompressionSettings::compress_internal *)

\* The names of the bytes of a frame, for the properties
Marks(name, n) == [i \in 1..n |-> name]

\* The header compress_internal writes: [err, bytes, marks].  ok_or turns a
\* missing block descriptor into InvalidBlockSize.
FrameHeader(settings, content_size) ==
  LET flags == {f \in FlagNames :
                  \/ f = "IndependentBlocks" /\ settings.independent_blocks
                  \/ f = "BlockChecksums" /\ settings.block_checksums
                  \/ f = "ContentChecksum" /\ settings.content_checksum
                  \/ f = "DictionaryId" /\ settings.dictionary_id # <<>>
                  \/ f = "ContentSize" /\ content_size # <<>>}
      flag_byte == 64 + flags_bits(flags)
      bd == BlockDescriptor_new(settings.block_size)
      size_field == IF content_size # <<>> THEN U64LE(content_size[1]) ELSE <<>>
      id_field == IF settings.dictionary_id # <<>>
                  THEN U32LE(settings.dictionary_id[1]) ELSE <<>>
      fields == <<flag_byte, bd.bd>> \o size_field \o id_field
  IN  IF bd.kind = "panic" THEN [err |-> "panic", bytes |-> <<>>, marks |-> <<>>]
      ELSE IF bd.kind # "some"
      THEN [err |-> "InvalidBlockSize", bytes |-> <<>>, marks |-> <<>>]
      ELSE [err |-> "",
            bytes |-> MAGIC \o fields \o <<xxh32(fields)[2]>>,
            marks |-> Marks("magic", 4) \o <<"flg", "bd">>
                      \o Marks("size", Len(size_field))
                      \o Marks("dict", Len(id_field)) \o <<"hc">>]

\* The template table: replace for every third 8-byte window of the dictionary
RECURSIVE TemplateTable(_, _, _)
TemplateTable(dict, offset, table) ==
  IF offset + REGSIZE > Len(dict) THEN table
  ELSE TemplateTable(dict, offset + 3, replace(table, dict, offset).table)

\* The `match` on the outcome c of compress2 for the block
\* in_buffer[window_offset..]: [table, stored, payload, seqs, panic]
MatchOutcome(in_buffer, window_offset, c) ==
  [table |-> c.table,
   panic |-> c.panic,
   stored |-> ~c.w.ok,
   seqs |-> c.seqs,
   payload |-> IF c.w.ok THEN c.w.buf
               ELSE Slice(in_buffer, window_offset, Len(in_buffer))]

\* What one turn of the loop writes for the block in_buffer[window_offset..]
EncodeBlock(in_buffer, window_offset, table) ==
  MatchOutcome(in_buffer, window_offset,
               compress2(in_buffer, window_offset, table,
                         NoPartialWrites(Len(in_buffer) - window_offset)))

\* The mutant of LengthPrefix: the length alone, for stored blocks too
LengthPrefixUnflagged(len, stored) == U32LE(len)

\* The length prefix of a block
LengthPrefix(len, stored) ==
  LET b == U32LE(len)
  IN  IF stored THEN <<b[1], b[2], b[3], b[4] + INCOMPRESSIBLE_BIT>> ELSE b

\* What the loop writes for a block with the outcome e: the length prefix,
\* the payload and, with block checksums, the checksum of the payload
BlockBytes(e, block_checksums) ==
  LengthPrefix(Len(e.payload), e.stored) \o e.payload
    \o (IF block_checksums THEN xxh32(e.payload) ELSE <<>>)

\* The mutant of ResetTable: the table of the block before is kept
KeepTable(template_table, table) == table

\* With independent blocks: table = template_table.clone()
ResetTable(template_table, table) == template_table

----------------------------------------------------------------------------
(* framed/decompress.rs: LZ4FrameReader *)

\* Option<XxHash32> and Option<Vec<u8>>: some says whether it is there
NoBytes == [some |-> FALSE, data |-> <<>>]

SomeBytes(data) == [some |-> TRUE, data |-> data]

\* Whether read_exact finds n bytes at pos
CanRead(wire, pos, n) == pos + n <= Len(wire)

\* The fields of LZ4FrameReader (read_buf is overwritten by every block and
\* leaves no trace); pos is the position of the underlying reader
ClosedReader ==
  [open |-> FALSE, pos |-> 0, flags |-> {}, block_maxsize |-> 0,
   content_size |-> <<>>, dictionary_id |-> <<>>, content_hasher |-> NoBytes,
   carryover_window |-> NoBytes, finished |-> FALSE]

\* LZ4FrameReader::new: header_checksum_actual, of the flag byte, the block
\* descriptor and the numbers read for the content size and the dictionary
\* id, each <<>> when absent.  The hasher takes a number as its bytes in the
\* order of the target, which is little-endian here.
header_checksum(flags_byte, bd, size_bytes, id_bytes) ==
  LET size_written == IF size_bytes = <<>> THEN <<>> ELSE U64LE(read_le(size_bytes))
      id_written == IF id_bytes = <<>> THEN <<>> ELSE U32LE(read_le(id_bytes))
  IN  xxh32(<<flags_byte, bd>> \o size_written \o id_written)[2]

\* LZ4FrameReader::new: [err, fr]
LZ4FrameReader_new(wire) ==
  LET fail(e) == [err |-> e, fr |-> ClosedReader]
  IN
  IF ~CanRead(wire, 0, 4) THEN fail("InputError")
  ELSE IF Slice(wire, 0, 4) # MAGIC THEN fail("WrongMagic")
  ELSE IF ~CanRead(wire, 4, 1) THEN fail("InputError")
  ELSE
  LET flags_byte == At(wire, 4)
      f == Flags_parse(flags_byte)
  IN
  IF f.err # "" THEN fail(f.err)
  ELSE IF ~CanRead(wire, 5, 1) THEN fail("InputError")
  ELSE
  LET bd == BlockDescriptor_parse(At(wire, 5))
      has_size == "ContentSize" \in f.flags
      has_id == "DictionaryId" \in f.flags
      size_end == IF has_size THEN 14 ELSE 6
      id_end == IF has_id THEN size_end + 4 ELSE size_end
  IN
  IF bd.err # "" THEN fail(bd.err)
  ELSE IF ~CanRead(wire, 6, size_end - 6) THEN fail("InputError")
  ELSE IF ~CanRead(wire, size_end, id_end - size_end) THEN fail("InputError")
  ELSE IF ~CanRead(wire, id_end, 1) THEN fail("InputError")
  ELSE IF At(wire, id_end) # header_checksum(flags_byte, bd.bd,
                                              Slice(wire, 6, size_end),
                                              Slice(wire, size_end, id_end))
  THEN fail("HeaderChecksumFail")
  ELSE
  LET m == block_maxsize(bd.bd)
  IN
  IF m.err # "" THEN fail(m.err)
  ELSE [err |-> "",
        fr |-> [open |-> TRUE,
                pos |-> id_end + 1,
                flags |-> f.flags,
                block_maxsize |-> m.size,
                content_size |-> IF has_size THEN <<read_le(Slice(wire, 6, 14))>>
                                 ELSE <<>>,
                dictionary_id |-> IF has_id THEN <<read_le(Slice(wire, size_end, id_end))>>
                                  ELSE <<>>,
                content_hasher |-> IF "ContentChecksum" \in f.flags
                                   THEN SomeBytes(<<>>) ELSE NoBytes,
                carryover_window |-> IF "IndependentBlocks" \in f.flags
                                     THEN NoBytes ELSE SomeBytes(<<>>),
                finished |-> FALSE]]

\* The mutant of ChecksumMatches: a reader that reads checksums and accepts
\* whatever they are
ChecksumIgnored(data, stored) == TRUE

\* decode_block: hasher.finish() == checksum.into()
ChecksumMatches(data, stored) == xxh32(data) = stored

\* The mutant of AlreadyFinished: a reader that forgets it has finished
NeverFinished(fr) == FALSE

\* decode_block: if self.finished { return; }
AlreadyFinished(fr) == fr.finished

\* The mutant of CarryWindow: a window from which nothing is removed
CarryWindowUntrimmed(window, output) == window \o output

\* The mutant of CarryWindow: a window that keeps nothing
CarryNothing(window, output) == <<>>

\* decode_block: push the output back into the window
CarryWindow(window, output) ==
  LET outlen == Len(output)
  IN  IF outlen < WINDOW_SIZE
      THEN LET available_bytes == Len(window) + outlen
               surplus_bytes == available_bytes - WINDOW_SIZE
           IN  (IF surplus_bytes >= 0
                THEN Slice(window, surplus_bytes, Len(window))
                ELSE window) \o output
      ELSE Slice(output, outlen - WINDOW_SIZE, outlen)

\* The mutant of OutputTooLong: the output of a block is not looked at
OutputAnyLength(output, maxsize) == FALSE

\* decode_block: output.len() > self.block_maxsize
OutputTooLong(output, maxsize) == Len(output) > maxsize

\* The mutant of HasherWrite: a hasher that keeps the last block only
HasherRestart(hashed, output) == output

\* decode_block: hasher.write(output), the hasher being modelled by the bytes
\* written to it
HasherWrite(hashed, output) == hashed \o output

\* decode_block, from the block's bytes on: [fr, err, output]
DecodePayload(fr, buf, is_compressed, dictionary, eof_consumes) ==
  LET window == fr.carryover_window
      filled == IF window.some /\ window.data = <<>>
                THEN SomeBytes(dictionary) ELSE window
      dec_prefix == IF window.some THEN filled.data ELSE dictionary
      d == decompress_raw(buf, dec_prefix, <<>>, fr.block_maxsize, eof_consumes)
      fr1 == [fr EXCEPT !.carryover_window = filled]
  IN
  IF is_compressed /\ d.result # "Ok"
  THEN [fr |-> fr1, err |-> d.result, output |-> d.output]
  ELSE
  LET output == IF is_compressed THEN d.output ELSE buf
      fr2 == IF window.some
             THEN [fr1 EXCEPT !.carryover_window.data = CarryWindow(@, output)]
             ELSE fr1
  IN
  IF OutputTooLong(output, fr.block_maxsize)
  THEN [fr |-> fr2, err |-> "BlockSizeOverflow", output |-> output]
  ELSE [fr |-> IF fr2.content_hasher.some
               THEN [fr2 EXCEPT !.content_hasher.data = HasherWrite(@, output)]
               ELSE fr2,
        err |-> "", output |-> output]

\* The length a prefix announces: block_length & !INCOMPRESSIBLE
BlockLength(b) == b[1] + 256 * b[2] + 65536 * b[3] + 16777216 * (b[4] % INCOMPRESSIBLE_BIT)

\* The mutant of ChecksumFailure: the checksum is compared after the block
\* was decoded
ChecksumFailureLate(fr, buf, is_compressed, dictionary, eof_consumes) ==
  [DecodePayload(fr, buf, is_compressed, dictionary, eof_consumes)
     EXCEPT !.err = "BlockChecksumFail"]

\* decode_block: throw!(Error::BlockChecksumFail), before the block in buf
\* is looked at; fr stands after the checksum
ChecksumFailure(fr, buf, is_compressed, dictionary, eof_consumes) ==
  [fr |-> fr, err |-> "BlockChecksumFail", output |-> <<>>]

\* decode_block(&mut output, dictionary) with an empty output: [fr, err, output]
decode_block(fr, wire, dictionary, eof_consumes) ==
  LET fail(e, pos) == [fr |-> [fr EXCEPT !.pos = pos], err |-> e, output |-> <<>>]
      eof(pos) == fail("InputError", PosAfterFailedRead(wire, pos, eof_consumes))
  IN
  IF AlreadyFinished(fr) THEN [fr |-> fr, err |-> "", output |-> <<>>]
  ELSE IF ~CanRead(wire, fr.pos, 4) THEN eof(fr.pos)
  ELSE
  LET b == Slice(wire, fr.pos, fr.pos + 4)
      pos1 == fr.pos + 4
  IN
  IF b = <<0, 0, 0, 0>>
  THEN IF fr.content_hasher.some
       THEN LET taken == [fr EXCEPT !.content_hasher = NoBytes]
            IN  IF ~CanRead(wire, pos1, 4)
                THEN [fr |-> [taken EXCEPT !.pos = PosAfterFailedRead(wire, pos1, eof_consumes)],
                      err |-> "InputError", output |-> <<>>]
                ELSE IF ~ChecksumMatches(fr.content_hasher.data, Slice(wire, pos1, pos1 + 4))
                THEN [fr |-> [taken EXCEPT !.pos = pos1 + 4],
                      err |-> "FrameChecksumFail", output |-> <<>>]
                ELSE [fr |-> [taken EXCEPT !.pos = pos1 + 4, !.finished = TRUE],
                      err |-> "", output |-> <<>>]
       ELSE [fr |-> [fr EXCEPT !.pos = pos1, !.finished = TRUE],
             err |-> "", output |-> <<>>]
  ELSE
  LET is_compressed == b[4] < INCOMPRESSIBLE_BIT
      block_length == BlockLength(b)
      pos2 == pos1 + block_length
      checked == "BlockChecksums" \in fr.flags
      pos3 == IF checked THEN pos2 + 4 ELSE pos2
  IN
  IF block_length > fr.block_maxsize THEN fail("BlockSizeOverflow", pos1)
  ELSE IF ~CanRead(wire, pos1, block_length) THEN eof(pos1)
  ELSE IF checked /\ ~CanRead(wire, pos2, 4) THEN eof(pos2)
  ELSE IF checked /\ ~ChecksumMatches(Slice(wire, pos1, pos2), Slice(wire, pos2, pos3))
  THEN ChecksumFailure([fr EXCEPT !.pos = pos3], Slice(wire, pos1, pos2),
                       is_compressed, dictionary, eof_consumes)
  ELSE LET buf == Slice(wire, pos1, pos2)
           advanced == [fr EXCEPT !.pos = pos3]
       IN  DecodePayload(advanced, buf, is_compressed, dictionary, eof_consumes)

----------------------------------------------------------------------------
(* framed/decompress.rs: LZ4FrameIoReader *)

\* into_read_with_dictionary
IoReaderInit == [bytes_taken |-> 0, buffer |-> <<>>]

\* &self.buffer[self.bytes_taken..]: slicing a buffer shorter than
\* bytes_taken panics
RestOfBuffer(io, fr) ==
  IF io.bytes_taken > Len(io.buffer)
  THEN [io |-> io, fr |-> fr, err |-> "", panic |-> TRUE, mybuf |-> <<>>]
  ELSE [io |-> io, fr |-> fr, err |-> "", panic |-> FALSE,
        mybuf |-> Slice(io.buffer, io.bytes_taken, Len(io.buffer))]

\* fill_buf after decode_block returned r into the cleared buffer: the `?`
\* leaves before bytes_taken is reset
Refilled(io, r) ==
  IF r.err # ""
  THEN [io |-> [io EXCEPT !.buffer = r.output], fr |-> r.fr, err |-> r.err,
        panic |-> FALSE, mybuf |-> <<>>]
  ELSE RestOfBuffer([bytes_taken |-> 0, buffer |-> r.output], r.fr)

\* fill_buf: [io, fr, err, panic, mybuf]
fill_buf(io, fr, wire, dictionary, eof_consumes) ==
  IF io.bytes_taken = Len(io.buffer)
  THEN Refilled(io, decode_block(fr, wire, dictionary, eof_consumes))
  ELSE RestOfBuffer(io, fr)

\* consume: [io, panic]
consume(io, amt) ==
  [io |-> [io EXCEPT !.bytes_taken = @ + amt],
   panic |-> io.bytes_taken + amt > Len(io.buffer)]

\* read after fill_buf returned f: copy and consume
TakeBytes(f, n) ==
  LET bytes_to_take == Min(Len(f.mybuf), n)
      c == consume(f.io, bytes_to_take)
  IN  IF f.err # "" \/ f.panic
      THEN [io |-> f.io, fr |-> f.fr, err |-> f.err, panic |-> f.panic, bytes |-> <<>>]
      ELSE [io |-> c.io, fr |-> f.fr, err |-> "", panic |-> c.panic,
            bytes |-> Slice(f.mybuf, 0, bytes_to_take)]

\* read(buf) with buf.len() = n: [io, fr, err, panic, bytes]
read(io, fr, wire, dictionary, eof_consumes, n) ==
  TakeBytes(fill_buf(io, fr, wire, dictionary, eof_consumes), n)

----------------------------------------------------------------------------
(* The state *)

VARIABLES
  stage,         \* where the run stands: "compress", "decode", "copy", "done"
  input,         \* compress2: the plaintext; decompress_raw alone: the block;
                 \* copy_overlapping alone: the output vector before the call
  block,         \* what compress2 returned: [w, table, seqs, panic]
  prefix,        \* decompress_raw: the prefix
  output_limit,  \* decompress_raw: the output limit
  eof_consumes,  \* the build: whether a failed read_exact moves a reader to the end
  dec,           \* the decompress_raw call (see DecInit)
  settings,      \* CompressionSettings
  plaintext,     \* what the reader given to compress holds
  content_size,  \* compress_internal's content_size: <<>> or <<n>>
  wr,            \* the compress_internal call (see WriterInit)
  wire,          \* the bytes written to the writer, which the frame reader reads
  marks,         \* for the properties: the name of each byte of wire
  tampered,      \* for the properties: the name of the byte changed, or ""
  fr,            \* the LZ4FrameReader (see ClosedReader)
  io,            \* the LZ4FrameIoReader: [bytes_taken, buffer]
  cl             \* the caller of the reader (see ClientInit)

rawVars == <<stage, input, block, prefix, output_limit, dec>>

frameVars == <<settings, plaintext, content_size, wr, wire, marks, tampered, fr, io, cl>>

vars == <<rawVars, eof_consumes, frameVars>>

NoBlock == [w |-> VecWriter, table |-> U32Table_default, seqs |-> <<>>, panic |-> FALSE]

\* The compress_internal call.  pc is the place in the function ("header",
\* "loop", "done"); result is "" while it runs, then "Ok", the
\* CompressionError or "panic".  read_pos is the position of the plaintext
\* reader.  blocks describes the blocks written, for the properties:
\* [plain, payload, stored, encoded, at, window_offset, seqs, in_buffer,
\* table_offset] with encoded the length compress2 would have written to an
\* unbounded writer, at the place of the block in wire, seqs the sequences
\* compress2 found, in_buffer and table_offset the buffer and the offset of
\* the table it was called with, table the table it left.
WriterInit ==
  [pc |-> "header", result |-> "", read_pos |-> 0, in_buffer |-> <<>>,
   table |-> U32Table_default, template_table |-> U32Table_default,
   content_hasher |-> NoBytes, blocks |-> <<>>]

\* The caller of the reader.  decoded is the plaintext received so far; call,
\* err and out describe the last call; panic says that a call panicked;
\* ended is "" until the first call that returned an error or the end of the
\* frame, then that error or "Ok"; after counts the calls made after that;
\* avail is what the last fill_buf returned and consume has not yet taken;
\* pos_before is the position of the underlying reader before the last call,
\* finished_before, hashing_before and window_before the reader's finished,
\* whether it had a content hasher and its carryover_window before it,
\* hasher_before its content hasher before it;
\* buffer_ok says that the decode_block call that last wrote to the buffer of
\* the LZ4FrameIoReader returned Ok.
ClientInit ==
  [decoded |-> <<>>, call |-> "", err |-> "", out |-> <<>>, panic |-> FALSE,
   ended |-> "", after |-> 0, avail |-> 0, pos_before |-> 0,
   finished_before |-> FALSE, hashing_before |-> FALSE, window_before |-> NoBytes,
   hasher_before |-> NoBytes, buffer_ok |-> TRUE]

NoSettings ==
  [independent_blocks |-> TRUE, block_checksums |-> FALSE, content_checksum |-> TRUE,
   block_size |-> 0, dictionary |-> <<>>, dictionary_id |-> <<>>]

\* The raw codec alone: no frame
NoFrame ==
  /\ settings = NoSettings
  /\ plaintext = <<>>
  /\ content_size = <<>>
  /\ wr = [WriterInit EXCEPT !.pc = "done"]
  /\ wire = <<>>
  /\ marks = <<>>
  /\ tampered = ""
  /\ fr = ClosedReader
  /\ io = IoReaderInit
  /\ cl = ClientInit

\* The frame codec: no separate call of the raw codec
NoRawCall ==
  /\ stage = "done"
  /\ input = <<>>
  /\ block = NoBlock
  /\ prefix = <<>>
  /\ output_limit = 0
  /\ dec = DecInit(<<>>)

----------------------------------------------------------------------------
(* Inputs *)

\* The longest seed of a periodic plaintext, and the longest plaintext
MaxSeed == 3

MaxRawLen == 30

\* The longest block given to decompress_raw alone
MaxDecLen == 4

\* usize::MAX in the source (the limit the tests decode with); here the
\* largest number the checker handles
NoLimit == 2147483647

SeqsUpTo(S, n) == UNION {[1..k -> S] : k \in 1..n}

Repeat(seed, n) == [i \in 1..n |-> seed[((i - 1) % Len(seed)) + 1]]

\* 0, 1, 2, ...: no four bytes occur twice
Ramp(n) == [i \in 1..n |-> i - 1]

\* The plaintexts of the tests of raw/decompress.rs: "aaaaaa",
\* "aaaaaabcbcbcbc" and "a49"
TestPlaintexts ==
  {Repeat(<<97>>, 6),
   Repeat(<<97>>, 6) \o Repeat(<<98, 99>>, 8),
   <<97, 52, 57>>}

\* Periodic plaintexts over {0, 1}, each also with one byte replaced by 2,
\* the ramps and the plaintexts of the tests
RawInputs ==
  {Repeat(seed, n) : seed \in SeqsUpTo({0, 1}, MaxSeed), n \in 0..MaxRawLen}
  \cup UNION {{[Repeat(seed, n) EXCEPT ![p] = 2] : p \in 1..n} :
              seed \in SeqsUpTo({0, 1}, MaxSeed), n \in 1..MaxRawLen}
  \cup {Ramp(n) : n \in 0..MaxRawLen}
  \cup TestPlaintexts

\* Blocks for decompress_raw: tokens with and without LSIC extensions,
\* small offsets, literals and the LSIC continuation byte
DecBytes == {0, 1, 2, 3, 16, 31, 240, 255}

DecInputs == {<<>>} \cup SeqsUpTo(DecBytes, MaxDecLen)

DecPrefixes == {<<>>, <<7, 8, 9>>}

DecLimits == {5, NoLimit}

----------------------------------------------------------------------------
(* SpecRaw: one plaintext through compress2 and back through decompress_raw,
   as tests::inverse does *)

InitRaw ==
  /\ stage = "compress"
  /\ input \in RawInputs
  /\ block = NoBlock
  /\ prefix = <<>>
  /\ output_limit = NoLimit
  /\ eof_consumes \in BOOLEAN
  /\ dec = DecInit(<<>>)
  /\ NoFrame

\* compress2(input, 0, &mut U32Table::default(), &mut Vec::new())
RawCompress ==
  /\ stage = "compress"
  /\ block' = compress2(input, 0, U32Table_default, VecWriter)
  /\ stage' = IF block'.panic THEN "done" ELSE "decode"
  /\ UNCHANGED <<input, prefix, output_limit, eof_consumes, dec, frameVars>>

\* One step of decompress_raw(&block, &[], &mut vec, usize::MAX)
RawDecode ==
  /\ stage = "decode"
  /\ dec' = DecStep(block.w.buf, prefix, output_limit, eof_consumes, dec)
  /\ stage' = IF dec'.phase = "done" THEN "done" ELSE "decode"
  /\ UNCHANGED <<input, block, prefix, output_limit, eof_consumes, frameVars>>

NextRaw == RawCompress \/ RawDecode

SpecRaw == InitRaw /\ [][NextRaw]_vars

----------------------------------------------------------------------------
(* SpecDec: decompress_raw on arbitrary blocks *)

InitDec ==
  /\ stage = "decode"
  /\ input \in DecInputs
  /\ block = NoBlock
  /\ prefix \in DecPrefixes
  /\ output_limit \in DecLimits
  /\ eof_consumes \in BOOLEAN
  /\ dec = DecInit(<<>>)
  /\ NoFrame

\* One step of decompress_raw(&input, &prefix, &mut vec, output_limit)
DecodeStep ==
  /\ stage = "decode"
  /\ dec' = DecStep(input, prefix, output_limit, eof_consumes, dec)
  /\ stage' = IF dec'.phase = "done" THEN "done" ELSE "decode"
  /\ UNCHANGED <<input, block, prefix, output_limit, eof_consumes, frameVars>>

NextDec == DecodeStep

SpecDec == InitDec /\ [][NextDec]_vars

----------------------------------------------------------------------------
(* SpecCopy: copy_overlapping alone, on an output vector that already holds
   bytes *)

\* The longest output vector before the call, the longest prefix and the
\* longest match
MaxCopyOut == 9

MaxCopyPrefix == 3

MaxCopyLen == 20

\* Output vectors and prefixes in which no byte occurs twice; every offset
\* from 0 to one more than prefix and output hold
InitCopy ==
  /\ stage = "copy"
  /\ input \in {Ramp(n) : n \in 0..MaxCopyOut}
  /\ block = NoBlock
  /\ prefix \in {[i \in 1..n |-> 100 + i] : n \in 0..MaxCopyPrefix}
  /\ output_limit = NoLimit
  /\ eof_consumes = FALSE
  /\ \E offset \in 0..(Len(prefix) + Len(input) + 1), match_len \in 0..MaxCopyLen :
       dec = [DecInit(input) EXCEPT !.phase = "match", !.match_at = Len(input),
                                    !.offset = offset, !.match_len = match_len]
  /\ NoFrame

\* copy_overlapping(offset, match_len, &prefix, &mut output)
CopyMatch ==
  /\ stage = "copy"
  /\ \E c \in {copy_overlapping(dec.offset, dec.match_len, prefix, dec.output)} :
       dec' = DecDone([dec EXCEPT !.output = c.output],
                      IF c.err = "" THEN "Ok" ELSE c.err)
  /\ stage' = "done"
  /\ UNCHANGED <<input, block, prefix, output_limit, eof_consumes, frameVars>>

NextCopy == CopyMatch

SpecCopy == InitCopy /\ [][NextCopy]_vars

----------------------------------------------------------------------------
(* SpecLsic: the length of a run of literals written by write_lsic_head and
   write_lsic_tail and read back by read_lsic *)

\* The longest run of literals: past 15 + 4 * 255 + 255, where both loops
\* of write_lsic_tail have run
MaxLsicValue == 1300

InitLsic ==
  /\ stage = "compress"
  /\ input \in {Zeros(n) : n \in 0..MaxLsicValue}
  /\ block = NoBlock
  /\ prefix = <<>>
  /\ output_limit = NoLimit
  /\ eof_consumes = FALSE
  /\ dec = DecInit(<<>>)
  /\ NoFrame

\* The token, the LSIC tail and the literals, as the tail branch of
\* compress2 writes them
LsicWrite ==
  /\ stage = "compress"
  /\ block' = [NoBlock EXCEPT !.w = write_tail(VecWriter, input)]
  /\ stage' = "decode"
  /\ UNCHANGED <<input, prefix, output_limit, eof_consumes, dec, frameVars>>

\* The token and read_lsic, as decompress_raw reads them
LsicRead ==
  /\ stage = "decode"
  /\ dec' = DecToken(block.w.buf, dec)
  /\ stage' = "done"
  /\ UNCHANGED <<input, block, prefix, output_limit, eof_consumes, frameVars>>

NextLsic == LsicWrite \/ LsicRead

SpecLsic == InitLsic /\ [][NextLsic]_vars

----------------------------------------------------------------------------
(* Properties of the raw codec *)

\* C1: raw round trip.  Whatever the plaintext (the empty one included),
\* compress2 from cursor 0 with a fresh table succeeds, and decompress_raw of
\* its output with an empty prefix, an empty output buffer and no limit
\* returns Ok and leaves exactly the plaintext in the output buffer.
RawRoundTrip ==
  stage = "done" =>
    /\ ~block.panic
    /\ block.w.ok
    /\ dec.result = "Ok"
    /\ dec.output = input

\* A round trip of a plaintext that was encoded with two matches and came
\* out shorter
RawRoundTripWitness ==
  /\ stage = "done"
  /\ dec.result = "Ok"
  /\ dec.output = input
  /\ Len(block.seqs) >= 3
  /\ Len(block.w.buf) < Len(input)

\* C3: memory limit.  Starting from an empty output buffer, the output
\* buffer is never longer than output_limit + input.len(), at any point of
\* the call and whatever the call returns.
MemoryLimit ==
  output_limit # NoLimit => Len(dec.output) <= output_limit + Len(input)

\* C7: invalid match offsets.  When copy_overlapping is reached (the match
\* fits the output limit), an offset of 0 ends the call with
\* ZeroDeduplicationOffset and an offset larger than prefix.len() plus the
\* output length at that point ends it with InvalidDeduplicationOffset.
InvalidOffsets ==
  dec.match_at >= 0 =>
    /\ dec.offset = 0 => dec.result = "ZeroDeduplicationOffset"
    /\ dec.offset > Len(prefix) + dec.match_at =>
         dec.result = "InvalidDeduplicationOffset"

\* An offset beyond a non-empty prefix and some output
InvalidOffsetsWitness ==
  /\ dec.result = "InvalidDeduplicationOffset"
  /\ dec.match_at > 0
  /\ prefix # <<>>
  /\ dec.offset > Len(prefix) + dec.match_at

\* C8: truncation is reported.  A call whose input ended inside a length
\* varint, inside the literals, after one of the two offset bytes or inside
\* the match length varint returns UnexpectedEnd.
TruncationReported ==
  dec.phase = "done" /\ (dec.cut # "" \/ dec.cut_offset) =>
    dec.result = "UnexpectedEnd"

----------------------------------------------------------------------------
(* Frames: the inputs *)

\* The longest plaintext given to compress
MaxPlainLen == 34

\* How many calls the caller makes after the end of the frame or an error
MaxCallsAfterEnd == 2

\* The block sizes of the format, scaled: the two smallest
ValidBlockSizes == {Pow2(MinBlockLog), Pow2(MinBlockLog + 2)}

\* No block size, not a power of two, a power of two in between
InvalidBlockSizes == {0, Pow2(MinBlockLog) + 8, Pow2(MinBlockLog + 1)}

\* dictionary(id, dict), or neither
Dictionaries ==
  {[dictionary |-> <<>>, dictionary_id |-> <<>>],
   [dictionary |-> Repeat(<<0, 0, 1>>, 12), dictionary_id |-> <<7>>]}

SettingsWith(sizes) ==
  {[independent_blocks |-> ib, block_checksums |-> bc, content_checksum |-> cc,
    block_size |-> bs, dictionary |-> d.dictionary, dictionary_id |-> d.dictionary_id] :
     ib \in BOOLEAN, bc \in BOOLEAN, cc \in BOOLEAN, bs \in sizes, d \in Dictionaries}

\* A ramp, which no encoding shortens, and then a run
RampThenRun(n) == [i \in 1..n |-> IF i <= Pow2(MinBlockLog) THEN i - 1 ELSE 1]

\* A ramp that starts again after a window: what repeats lies one more than
\* the largest offset back
FarRepeats == {Repeat(Ramp(WINDOW_SIZE), MaxPlainLen - k) : k \in 0..2}

FramePlaintexts ==
  UNION {{Repeat(<<0>>, n), Repeat(<<0, 0, 1>>, n), RampThenRun(n)} : n \in 0..MaxPlainLen}
  \cup FarRepeats

\* compress and compress_with_size
ContentSizes(s) == {<<>>, <<Len(s)>>}

----------------------------------------------------------------------------
(* compress_internal, step by step *)

\* From the start of compress_internal to the loop
WriteHeader ==
  /\ wr.pc = "header"
  /\ LET h == FrameHeader(settings, content_size)
         template_table == TemplateTable(settings.dictionary, 0, U32Table_default)
     IN  IF h.err # ""
         THEN /\ wr' = [wr EXCEPT !.pc = "done", !.result = h.err]
              /\ UNCHANGED <<wire, marks>>
         ELSE /\ wr' = [wr EXCEPT !.pc = "loop",
                                  !.in_buffer = settings.dictionary,
                                  !.template_table = template_table,
                                  !.table = template_table,
                                  !.content_hasher = IF settings.content_checksum
                                                     THEN SomeBytes(<<>>) ELSE NoBytes]
              /\ wire' = wire \o h.bytes
              /\ marks' = marks \o h.marks
  /\ UNCHANGED <<rawVars, eof_consumes, settings, plaintext, content_size, tampered, fr, io, cl>>

\* The mutant of ReadEnd: one byte less than a block is taken
ReadEndShort(read_pos, block_size, len) == Min(read_pos + block_size - 1, len)

\* reader.take(block_size).read_to_end(&mut in_buffer): where the reader
\* stands afterwards, len being the length of what it holds
ReadEnd(read_pos, block_size, len) == Min(read_pos + block_size, len)

\* One turn of the loop that reads a block
CompressBlock ==
  /\ wr.pc = "loop"
  /\ wr.read_pos < Len(plaintext)
  /\ LET window_offset == Len(wr.in_buffer)
         read_end == ReadEnd(wr.read_pos, settings.block_size, Len(plaintext))
     IN  \E in_buffer \in {wr.in_buffer \o Slice(plaintext, wr.read_pos, read_end)} :
         \E e \in {EncodeBlock(in_buffer, window_offset, wr.table)} :
         \E checksum \in {IF settings.block_checksums THEN xxh32(e.payload) ELSE <<>>} :
         \E block_written \in
              {[plain |-> Slice(in_buffer, window_offset, Len(in_buffer)),
                payload |-> e.payload, stored |-> e.stored,
                encoded |-> Len(compress2(in_buffer, window_offset, wr.table,
                                          VecWriter).w.buf),
                at |-> Len(wire), window_offset |-> window_offset,
                seqs |-> e.seqs, in_buffer |-> in_buffer,
                table_offset |-> wr.table.offset, table |-> e.table]} :
         LET how_much_to_forget == Len(in_buffer) - WINDOW_SIZE
         IN
         IF e.panic
         THEN /\ wr' = [wr EXCEPT !.pc = "done", !.result = "panic"]
              /\ UNCHANGED <<wire, marks>>
         ELSE /\ wire' = wire \o LengthPrefix(Len(e.payload), e.stored) \o e.payload
                              \o checksum
              /\ marks' = marks \o Marks("len", 4) \o Marks("data", Len(e.payload))
                                \o Marks("bc", Len(checksum))
              /\ wr' = [wr EXCEPT
                   !.read_pos = read_end,
                   !.content_hasher.data = IF wr.content_hasher.some
                                           THEN @ \o block_written.plain ELSE @,
                   !.blocks = Append(@, block_written),
                   !.in_buffer = IF settings.independent_blocks THEN settings.dictionary
                                 ELSE IF how_much_to_forget > 0
                                 THEN Slice(in_buffer, how_much_to_forget, Len(in_buffer))
                                 ELSE in_buffer,
                   !.table = IF settings.independent_blocks
                             THEN ResetTable(wr.template_table, e.table)
                             ELSE IF how_much_to_forget > 0
                             THEN table_offset(e.table, how_much_to_forget)
                             ELSE e.table]
  /\ UNCHANGED <<rawVars, eof_consumes, settings, plaintext, content_size, tampered, fr, io, cl>>

\* The turn of the loop that reads nothing, and the end of the frame
WriteEnd ==
  /\ wr.pc = "loop"
  /\ wr.read_pos = Len(plaintext)
  /\ LET checksum == IF wr.content_hasher.some THEN xxh32(wr.content_hasher.data)
                     ELSE <<>>
     IN  /\ wire' = wire \o <<0, 0, 0, 0>> \o checksum
         /\ marks' = marks \o Marks("end", 4) \o Marks("cc", Len(checksum))
  /\ wr' = [wr EXCEPT !.pc = "done", !.result = "Ok"]
  /\ UNCHANGED <<rawVars, eof_consumes, settings, plaintext, content_size, tampered, fr, io, cl>>

----------------------------------------------------------------------------
(* The reader of the frame *)

\* What the first end of the decoding is: a panic, an error, or Ok
EndOf(panic, err, at_end) ==
  IF panic THEN "panic" ELSE IF err # "" THEN err ELSE IF at_end THEN "Ok" ELSE ""

\* The caller's record of a call
AfterCall(call, panic, err, out, received, at_end, avail) ==
  [cl EXCEPT !.call = call, !.panic = panic, !.err = err, !.out = out,
             !.decoded = @ \o received,
             !.ended = IF @ = "" THEN EndOf(panic, err, at_end) ELSE @,
             !.after = IF cl.ended # "" THEN @ + 1 ELSE @,
             !.avail = avail,
             !.pos_before = fr.pos,
             !.finished_before = fr.finished,
             !.hashing_before = fr.content_hasher.some,
             !.window_before = fr.carryover_window,
             !.hasher_before = fr.content_hasher]

\* Whether the buffer holds the output of a decode_block call that returned
\* Ok, after a fill_buf that returned err: fill_buf calls decode_block when
\* all of the buffer was taken
BufferOk(err) == IF io.bytes_taken = Len(io.buffer) THEN err = "" ELSE cl.buffer_ok

\* LZ4FrameReader::new(&wire[..]) and into_read_with_dictionary
NewReader ==
  /\ wr.pc = "done" /\ wr.result = "Ok"
  /\ ~fr.open /\ cl.call = ""
  /\ \E r \in {LZ4FrameReader_new(wire)} :
         /\ fr' = r.fr
         /\ cl' = AfterCall("new", FALSE, r.err, <<>>, <<>>, FALSE, 0)
  /\ io' = IoReaderInit
  /\ UNCHANGED <<rawVars, eof_consumes, settings, plaintext, content_size, wr, wire, marks, tampered>>

CallAllowed == fr.open /\ ~cl.panic /\ cl.after < MaxCallsAfterEnd

\* decode_block(&mut Vec::new(), dictionary)
DecodeBlock ==
  /\ CallAllowed
  /\ \E r \in {decode_block(fr, wire, settings.dictionary, eof_consumes)} :
         /\ fr' = r.fr
         /\ cl' = AfterCall("decode_block", FALSE, r.err, r.output,
                            IF r.err = "" THEN r.output ELSE <<>>, r.fr.finished, 0)
  /\ UNCHANGED <<rawVars, eof_consumes, settings, plaintext, content_size, wr, wire, marks, tampered, io>>

\* fill_buf()
FillBuf ==
  /\ CallAllowed
  /\ \E r \in {fill_buf(io, fr, wire, settings.dictionary, eof_consumes)} :
         /\ fr' = r.fr
         /\ io' = r.io
         /\ cl' = [AfterCall("fill_buf", r.panic, r.err, r.mybuf, <<>>,
                             r.mybuf = <<>>, Len(r.mybuf))
                     EXCEPT !.buffer_ok = BufferOk(r.err)]
  /\ UNCHANGED <<rawVars, eof_consumes, settings, plaintext, content_size, wr, wire, marks, tampered>>

\* consume(amt), with amt no more than what fill_buf returned
Consume ==
  /\ CallAllowed
  /\ cl.avail > 0
  /\ \E amt \in {1, cl.avail} :
       \E r \in {consume(io, amt)} :
           /\ io' = r.io
           /\ cl' = AfterCall("consume", r.panic, "", <<>>,
                              Slice(io.buffer, io.bytes_taken, io.bytes_taken + amt),
                              FALSE, cl.avail - amt)
  /\ UNCHANGED <<rawVars, eof_consumes, settings, plaintext, content_size, wr, wire, marks, tampered, fr>>

\* The lengths of the buffers given to read
ReadSizes == {1, Pow2(MinBlockLog + 1)}

\* read(buf)
Read ==
  /\ CallAllowed
  /\ \E n \in ReadSizes :
       \E r \in {read(io, fr, wire, settings.dictionary, eof_consumes, n)} :
           /\ fr' = r.fr
           /\ io' = r.io
           /\ cl' = [AfterCall("read", r.panic, r.err, r.bytes, r.bytes,
                               r.bytes = <<>>, 0)
                       EXCEPT !.buffer_ok = BufferOk(r.err)]
  /\ UNCHANGED <<rawVars, eof_consumes, settings, plaintext, content_size, wr, wire, marks, tampered>>

----------------------------------------------------------------------------
(* Spec: a plaintext through compress and back through decode_block *)

Init ==
  /\ NoRawCall
  /\ eof_consumes \in BOOLEAN
  /\ settings \in SettingsWith(ValidBlockSizes \cup InvalidBlockSizes)
  /\ plaintext \in FramePlaintexts
  /\ content_size \in ContentSizes(plaintext)
  /\ wr = WriterInit
  /\ wire = <<>>
  /\ marks = <<>>
  /\ tampered = ""
  /\ fr = ClosedReader
  /\ io = IoReaderInit
  /\ cl = ClientInit

Next == WriteHeader \/ CompressBlock \/ WriteEnd \/ NewReader \/ DecodeBlock

Spec == Init /\ [][Next]_vars

----------------------------------------------------------------------------
(* SpecTamper: a frame with one byte of a checksum or of a length prefix
   changed, or none, read through the LZ4FrameIoReader *)

\* The longest plaintext of a frame that is tampered with
MaxTamperLen == 18

TamperPlaintexts ==
  UNION {{Repeat(<<0>>, n), RampThenRun(n)} : n \in 0..MaxTamperLen}

TamperMarks == {"hc", "len", "bc", "cc"}

\* The values a byte is changed to
TamperValues(b) == {(b + 1) % 256, (b + 128) % 256, 0} \ {b}

InitTamper ==
  /\ NoRawCall
  /\ eof_consumes \in BOOLEAN
  /\ settings \in SettingsWith({Pow2(MinBlockLog)})
  /\ plaintext \in TamperPlaintexts
  /\ content_size = <<>>
  /\ wr = WriterInit
  /\ wire = <<>>
  /\ marks = <<>>
  /\ tampered = ""
  /\ fr = ClosedReader
  /\ io = IoReaderInit
  /\ cl = ClientInit

\* One byte of the finished frame changes before it is read
Tamper ==
  /\ wr.pc = "done" /\ wr.result = "Ok"
  /\ tampered = "" /\ cl.call = ""
  /\ \E p \in 1..Len(wire) :
       /\ marks[p] \in TamperMarks
       /\ \E v \in TamperValues(wire[p]) : wire' = [wire EXCEPT ![p] = v]
       /\ tampered' = marks[p]
  /\ UNCHANGED <<rawVars, eof_consumes, settings, plaintext, content_size, wr, marks, fr, io, cl>>

NextTamper ==
  \/ WriteHeader \/ CompressBlock \/ WriteEnd
  \/ Tamper
  \/ NewReader \/ FillBuf \/ Consume \/ Read

SpecTamper == InitTamper /\ [][NextTamper]_vars

----------------------------------------------------------------------------
(* SpecHeader: LZ4FrameReader::new on headers of every flag byte and of
   block descriptors with and without reserved bits, the magic and the
   checksum byte right or wrong *)

\* Every block-size code, and descriptors with a bit outside bits 4-6
HeaderDescriptors == {16 * code : code \in 0..7} \cup {1, 8, 64 + 2, 128, 128 + 64, 255}

\* What is wrong with a header beyond its flag byte and its descriptor
HeaderFaults == {"", "magic", "hc"}

\* A header with the fields its flag byte announces
HeaderBytes(flg, bd, fault) ==
  LET size_field == IF BitSet(flg, FlagBits.ContentSize) THEN U64LE(5) ELSE <<>>
      id_field == IF BitSet(flg, FlagBits.DictionaryId) THEN U32LE(7) ELSE <<>>
      fields == <<flg, bd>> \o size_field \o id_field
      hc == xxh32(fields)[2]
  IN  [bytes |-> (IF fault = "magic" THEN [MAGIC EXCEPT ![1] = @ + 1] ELSE MAGIC)
                 \o fields \o <<IF fault = "hc" THEN (hc + 1) % 256 ELSE hc>>,
       marks |-> Marks("magic", 4) \o <<"flg", "bd">> \o Marks("size", Len(size_field))
                 \o Marks("dict", Len(id_field)) \o <<"hc">>]

InitHeader ==
  /\ NoRawCall
  /\ eof_consumes = FALSE
  /\ settings = NoSettings
  /\ plaintext = <<>>
  /\ content_size = <<>>
  /\ wr = [WriterInit EXCEPT !.pc = "done"]
  /\ \E flg \in 0..255, bd \in HeaderDescriptors, fault \in HeaderFaults :
       \E h \in {HeaderBytes(flg, bd, fault)} :
           /\ wire = h.bytes
           /\ marks = h.marks
           /\ tampered = fault
  /\ fr = ClosedReader
  /\ io = IoReaderInit
  /\ cl = ClientInit

\* LZ4FrameReader::new(&wire[..])
ParseHeader ==
  /\ ~fr.open /\ cl.call = ""
  /\ \E r \in {LZ4FrameReader_new(wire)} :
         /\ fr' = r.fr
         /\ cl' = AfterCall("new", FALSE, r.err, <<>>, <<>>, FALSE, 0)
  /\ UNCHANGED <<rawVars, eof_consumes, settings, plaintext, content_size, wr, wire, marks,
                 tampered, io>>

NextHeader == ParseHeader

SpecHeader == InitHeader /\ [][NextHeader]_vars

----------------------------------------------------------------------------
(* SpecCorrupt: a frame with one byte of a block, of a length prefix or of
   the content checksum changed, or none, read block by block *)

CorruptMarks == {"len", "data", "cc"}

\* The values a byte is changed to: a longer match among them
CorruptValues(b) == {(b + 1) % 256, (b + 8) % 256, (b + 128) % 256, 0} \ {b}

\* One byte of the finished frame changes before it is read
Corrupt ==
  /\ wr.pc = "done" /\ wr.result = "Ok"
  /\ tampered = "" /\ cl.call = ""
  /\ \E p \in 1..Len(wire) :
       /\ marks[p] \in CorruptMarks
       /\ \E v \in CorruptValues(wire[p]) : wire' = [wire EXCEPT ![p] = v]
       /\ tampered' = marks[p]
  /\ UNCHANGED <<rawVars, eof_consumes, settings, plaintext, content_size, wr, marks, fr, io, cl>>

NextCorrupt ==
  \/ WriteHeader \/ CompressBlock \/ WriteEnd
  \/ Corrupt
  \/ NewReader \/ DecodeBlock

SpecCorrupt == InitTamper /\ [][NextCorrupt]_vars

----------------------------------------------------------------------------
(* SpecStream: a frame with one byte of a block, of a length prefix or of
   the content checksum changed, or none, read through the LZ4FrameIoReader *)

NextStream ==
  \/ WriteHeader \/ CompressBlock \/ WriteEnd
  \/ Corrupt
  \/ NewReader \/ FillBuf \/ Consume \/ Read

SpecStream == InitTamper /\ [][NextStream]_vars

----------------------------------------------------------------------------
(* SpecLong: compress with dependent blocks on plaintexts longer than the
   slots of the table can count *)

\* The longest plaintext: more than SlotMax bytes
MaxLongLen == 70

InitLong ==
  /\ NoRawCall
  /\ eof_consumes = FALSE
  /\ settings \in {s \in SettingsWith({Pow2(MinBlockLog)}) : ~s.independent_blocks}
  /\ plaintext \in UNION {{Repeat(<<0>>, n), Repeat(<<0, 0, 1>>, n),
                            Repeat(Ramp(WINDOW_SIZE), n)} : n \in 0..MaxLongLen}
  /\ content_size = <<>>
  /\ wr = WriterInit
  /\ wire = <<>>
  /\ marks = <<>>
  /\ tampered = ""
  /\ fr = ClosedReader
  /\ io = IoReaderInit
  /\ cl = ClientInit

NextLong == WriteHeader \/ CompressBlock \/ WriteEnd

SpecLong == InitLong /\ [][NextLong]_vars

----------------------------------------------------------------------------
(* Properties of the frame codec *)

\* C2: frame round trip.  Whatever the plaintext and the settings (blocks
\* independent or not, block checksums, content checksum, content size and
\* dictionary present or absent), compress succeeds, and decoding the frame
\* to its end with the same dictionary returns no error and yields exactly
\* the plaintext.
FrameRoundTrip ==
  settings.block_size \in ValidBlockSizes =>
    /\ wr.pc = "done" => wr.result = "Ok"
    /\ cl.call # "" => cl.err = ""
    /\ cl.ended # "" => cl.ended = "Ok" /\ cl.decoded = plaintext

\* A frame of three blocks, the second encoded with a match that starts in
\* the block before it, decoded to its end
FrameRoundTripWitness ==
  /\ cl.ended = "Ok"
  /\ cl.decoded = plaintext
  /\ Len(wr.blocks) = 3
  /\ ~wr.blocks[2].stored
  /\ \E k \in 1..Len(wr.blocks[2].seqs) :
       LET q == wr.blocks[2].seqs[k]
       IN  q.match /\ q.literal_end - q.offset < wr.blocks[2].window_offset

\* Whether the length prefix at 0-based position `at` of wire has its high bit set
HighBitSet(at) == wire[at + 4] >= INCOMPRESSIBLE_BIT

\* C6: non-expanding blocks.  Every block written has a payload no longer
\* than its plaintext; a block whose raw encoding would be longer than its
\* plaintext is written with the high bit of its length prefix set and the
\* plaintext as payload, every other block with the bit clear and the
\* encoding as payload; and compress never returns the sink's error.
NonExpandingBlocks ==
  /\ wr.result \in {"", "Ok", "InvalidBlockSize", "panic"}
  /\ \A i \in 1..Len(wr.blocks) :
       LET b == wr.blocks[i]
       IN  /\ Len(b.payload) <= Len(b.plain)
           /\ b.stored <=> b.encoded > Len(b.plain)
           /\ b.stored <=> HighBitSet(b.at)
           /\ b.stored => b.payload = b.plain
           /\ ~b.stored => Len(b.payload) = b.encoded
           /\ Slice(wire, b.at + 4, b.at + 4 + Len(b.payload)) = b.payload
           /\ BlockLength(Slice(wire, b.at, b.at + 4)) = Len(b.payload)

\* A frame with a stored block and an encoded block
NonExpandingBlocksWitness ==
  /\ wr.result = "Ok"
  /\ \E i, j \in 1..Len(wr.blocks) :
       /\ wr.blocks[i].stored
       /\ wr.blocks[i].encoded > Len(wr.blocks[i].plain)
       /\ ~wr.blocks[j].stored

\* C9: configuration error.  compress with a block size that is not one of
\* the four of the format returns InvalidBlockSize, does not panic and
\* writes nothing.
InvalidBlockSizeReported ==
  settings.block_size \in InvalidBlockSizes /\ wr.pc = "done" =>
    wr.result = "InvalidBlockSize" /\ wire = <<>>

\* C10: the reader stops at the end of the frame.  A decode_block call made
\* after the call that read the terminal marker returns Ok with an empty
\* output and reads nothing from the underlying reader.
StopsAtEnd ==
  cl.call = "decode_block" /\ cl.finished_before =>
    /\ cl.err = ""
    /\ cl.out = <<>>
    /\ fr.pos = cl.pos_before
    /\ fr.finished

\* A call after the end of a frame that has a content checksum, with
\* nothing left to read
StopsAtEndWitness ==
  /\ cl.call = "decode_block"
  /\ cl.finished_before
  /\ cl.after = MaxCallsAfterEnd
  /\ settings.content_checksum
  /\ fr.pos = Len(wire)
  /\ cl.decoded = plaintext /\ plaintext # <<>>

\* C4 as claimed: tamper rejection.  With one checksum byte or one byte of a
\* block length prefix changed, decoding the frame to its end returns an
\* error, never Ok and never a panic.
TamperRejected ==
  tampered # "" /\ cl.ended # "" => cl.ended \notin {"Ok", "panic"}

\* C4 as amended: with one checksum byte changed, decoding the frame to its
\* end returns the checksum error of that checksum; with one byte of a block
\* length prefix changed, it does not panic.
ChecksumTamperRejected ==
  cl.ended # "" =>
    /\ tampered = "hc" => cl.ended = "HeaderChecksumFail"
    /\ tampered = "bc" => cl.ended = "BlockChecksumFail"
    /\ tampered = "cc" => cl.ended = "FrameChecksumFail"
    /\ tampered = "len" => cl.ended # "panic"

\* The checksum of the second block changed: the first block is received,
\* then the error
ChecksumTamperRejectedWitness ==
  /\ tampered = "bc"
  /\ cl.err = "BlockChecksumFail"
  /\ cl.after = 0
  /\ cl.decoded # <<>>

\* C5: no panic in the streaming decoder.  Once LZ4FrameReader::new has
\* succeeded, no read, fill_buf or consume call panics, calls after an
\* error included.
StreamNeverPanics == ~cl.panic

\* Whether the last call found the terminal marker where it started to read
AtMarker ==
  /\ CanRead(wire, cl.pos_before, 4)
  /\ Slice(wire, cl.pos_before, cl.pos_before + 4) = <<0, 0, 0, 0>>

\* C11: content checksum timing.  With a content checksum, only the
\* decode_block call that reads the terminal marker compares it, against
\* xxh32 of all the outputs returned so far: that call returns Ok when they
\* are equal and FrameChecksumFail when not; no call that handles a data
\* block returns FrameChecksumFail; and when only the stored checksum was
\* changed the whole plaintext has been returned before the error.
ChecksumAtEnd ==
  cl.call = "decode_block" =>
    /\ cl.err = "FrameChecksumFail" =>
          /\ AtMarker /\ cl.hashing_before /\ cl.out = <<>>
          /\ tampered = "cc" => cl.decoded = plaintext
    /\ AtMarker /\ cl.hashing_before /\ ~cl.finished_before
         /\ CanRead(wire, cl.pos_before + 4, 4) =>
          IF xxh32(cl.decoded) = Slice(wire, cl.pos_before + 4, cl.pos_before + 8)
          THEN cl.err = "" /\ fr.finished
          ELSE cl.err = "FrameChecksumFail"

\* A block changed and returned without an error, then the mismatch at the
\* terminal marker
ChecksumAtEndWitness ==
  /\ cl.call = "decode_block"
  /\ cl.err = "FrameChecksumFail"
  /\ tampered = "data"
  /\ cl.decoded # plaintext
  /\ Len(wr.blocks) = 2

\* The place of the header checksum in a header the writer wrote
ChecksumPlace == CHOOSE p \in 1..Len(wire) : marks[p] = "hc"

\* C12: header round trip.  The header compress writes for settings it
\* accepts is accepted by LZ4FrameReader::new, which then reports the block
\* size, the content size, the dictionary id and the three flags that were
\* given to the writer, and the checksum byte computed from the fields it
\* read is the byte the writer wrote.
HeaderRoundTrip ==
  wr.result = "Ok" /\ cl.call # "" =>
    /\ fr.open
    /\ cl.call = "new" => cl.err = ""
    /\ fr.block_maxsize = settings.block_size
    /\ fr.content_size = content_size
    /\ fr.dictionary_id = settings.dictionary_id
    /\ "IndependentBlocks" \in fr.flags <=> settings.independent_blocks
    /\ "BlockChecksums" \in fr.flags <=> settings.block_checksums
    /\ "ContentChecksum" \in fr.flags <=> settings.content_checksum
    /\ wire[ChecksumPlace] =
         header_checksum(wire[5], wire[6],
                         IF fr.content_size = <<>> THEN <<>> ELSE U64LE(fr.content_size[1]),
                         IF fr.dictionary_id = <<>> THEN <<>> ELSE U32LE(fr.dictionary_id[1]))

\* A header with a content size and a dictionary id, read back
HeaderRoundTripWitness ==
  /\ cl.call = "new"
  /\ fr.open
  /\ fr.content_size = <<MaxPlainLen>>
  /\ fr.dictionary_id # <<>>
  /\ fr.block_maxsize = Pow2(MinBlockLog + 2)
  /\ fr.flags = FlagNames

----------------------------------------------------------------------------
(* Properties of compress2 *)

\* C13 as claimed: raw-encoding the six bytes "aaaaaa" gives the four bytes
\* 0x11, 'a', 0x01, 0x00.
SixAsEncodedAsMatch ==
  input = Repeat(<<97>>, 6) /\ stage # "compress" => block.w.buf = <<17, 97, 1, 0>>

\* C13 as amended: raw-encoding the six bytes "aaaaaa" gives the seven
\* bytes 0x60, 'a', 'a', 'a', 'a', 'a', 'a': one literal-only sequence.
SixAsEncodedAsLiterals ==
  input = Repeat(<<97>>, 6) /\ stage # "compress" =>
    block.w.buf = <<96, 97, 97, 97, 97, 97, 97>>

\* "aaaaaa" encoded and decoded again
SixAsEncodedWitness ==
  /\ input = Repeat(<<97>>, 6)
  /\ stage = "done"
  /\ Len(block.w.buf) = 7
  /\ dec.output = input

----------------------------------------------------------------------------
(* Properties of decode_block on frames that were changed *)

\* The prefix decode_block decodes a block against, from the window it had
\* before the call
PrefixBefore ==
  IF cl.window_before.some /\ cl.window_before.data # <<>>
  THEN cl.window_before.data ELSE settings.dictionary

\* C14: block size bound on decode.  decode_block never returns Ok with an
\* output longer than block_size(), for encoded and for stored blocks.  A
\* block whose prefix announces more bytes ends in BlockSizeOverflow, and an
\* encoded block that was read whole, passed its checksum and decodes
\* without a limit to more bytes ends in BlockSizeOverflow or
\* MemoryLimitExceeded.
BlockSizeBound ==
  cl.call = "decode_block" =>
    /\ cl.err = "" => Len(cl.out) <= fr.block_maxsize
    /\ ~cl.finished_before /\ CanRead(wire, cl.pos_before, 4) /\ ~AtMarker =>
         LET b == Slice(wire, cl.pos_before, cl.pos_before + 4)
             from == cl.pos_before + 4
             unlimited == decompress_raw(Slice(wire, from, from + BlockLength(b)),
                                         PrefixBefore, <<>>, NoLimit, eof_consumes)
         IN  /\ BlockLength(b) > fr.block_maxsize => cl.err = "BlockSizeOverflow"
             /\ /\ BlockLength(b) <= fr.block_maxsize
                /\ b[4] < INCOMPRESSIBLE_BIT
                /\ cl.err \notin {"InputError", "BlockChecksumFail"}
                /\ unlimited.result = "Ok"
                /\ Len(unlimited.output) > fr.block_maxsize
                => cl.err \in {"BlockSizeOverflow", "MemoryLimitExceeded"}

\* An encoded block no longer than a block that decodes to more than a
\* block, all matches within the limit
BlockSizeBoundWitness ==
  /\ cl.call = "decode_block"
  /\ cl.err = "BlockSizeOverflow"
  /\ tampered = "data"
  /\ Len(cl.out) > fr.block_maxsize

----------------------------------------------------------------------------
(* Properties of LZ4FrameReader::new *)

\* C15: header validation.  LZ4FrameReader::new returns WrongMagic for a
\* wrong magic; with the right magic UnsupportedVersion when the top two
\* bits of the flag byte are not 01, else ReservedFlagBitsSet when its bit 1
\* is set, else ReservedBdBitsSet when a bit of the descriptor outside bits
\* 4-6 is set, else HeaderChecksumFail for a wrong checksum byte, else
\* UnimplementedBlocksize for a block-size code outside 4..7; for the codes
\* 4..7 it succeeds with the block size 1 << (code * 2 + 8), scaled.
HeaderValidation ==
  cl.call = "new" =>
    LET flg == wire[5]
        bd == wire[6]
        code == (bd \div 16) % 8
    IN  IF tampered = "magic" THEN cl.err = "WrongMagic"
        ELSE IF flg \div 64 # 1 THEN cl.err = "UnsupportedVersion"
        ELSE IF (flg \div 2) % 2 = 1 THEN cl.err = "ReservedFlagBitsSet"
        ELSE IF bd >= 128 \/ bd % 16 # 0 THEN cl.err = "ReservedBdBitsSet"
        ELSE IF tampered = "hc" THEN cl.err = "HeaderChecksumFail"
        ELSE IF code \notin 4..7 THEN cl.err = "UnimplementedBlocksize"
        ELSE /\ cl.err = ""
             /\ fr.open
             /\ fr.block_maxsize = Pow2(MinBlockLog + 2 * (code - 4))

\* A header that is right but for its block-size code 3, with every flag
HeaderValidationWitness ==
  /\ cl.call = "new"
  /\ cl.err = "UnimplementedBlocksize"
  /\ wire[6] = 16 * 3
  /\ from_bits_truncate(wire[5]) = FlagNames
  /\ tampered = ""

----------------------------------------------------------------------------
(* Properties of the sequences compress2 writes *)

\* Whether the match of sequence q copies, byte by byte, what lies
\* q.offset bytes earlier in buf
MatchCopies(buf, q) ==
  \A j \in 0..(q.extra_bytes + MINMATCH - 1) :
    /\ q.literal_end + j < Len(buf)
    /\ At(buf, q.literal_end + j) = At(buf, q.literal_end + j - q.offset)

\* C16: the matches of the encoder are sound.  Every match compress2 emits
\* has an offset from 1 to the largest offset of the format, a source that
\* starts at or after index 0 of the input buffer (dictionary or window,
\* then the block), a start at or after the start of its literal run, and
\* each of its extra_bytes + 4 bytes equals the byte offset places earlier.
MatchesSound ==
  \A i \in 1..Len(wr.blocks) :
    \A k \in 1..Len(wr.blocks[i].seqs) :
      LET b == wr.blocks[i]
          q == b.seqs[k]
      IN  q.match =>
            /\ q.offset >= 1 /\ q.offset <= MAX_OFFSET
            /\ q.literal_end - q.offset >= 0
            /\ q.literal_end >= q.literal_start
            /\ q.literal_start >= b.window_offset
            /\ MatchCopies(b.in_buffer, q)

\* A block encoded with a table whose offset is not 0, after part of the
\* buffer was forgotten, with a match whose source starts in the window
MatchesSoundWitness ==
  \E i \in 1..Len(wr.blocks) :
    \E k \in 1..Len(wr.blocks[i].seqs) :
      LET b == wr.blocks[i]
          q == b.seqs[k]
      IN  /\ q.match
          /\ b.table_offset > 0
          /\ q.literal_end - q.offset < b.window_offset

----------------------------------------------------------------------------
(* Properties of the end of the block compress2 writes *)

\* C17: the last five bytes are literals.  Whenever the block compress2
\* wrote holds a match, its last sequence is literal-only, runs to the end of
\* the input and carries at least 5 literals, and no match covers any of the
\* last 5 bytes of the input.
LastFiveLiteral ==
  stage # "compress" /\ (\E k \in 1..Len(block.seqs) : block.seqs[k].match) =>
    LET last == block.seqs[Len(block.seqs)]
    IN  /\ ~last.match
        /\ last.literal_end = Len(input)
        /\ last.literal_end - last.literal_start >= 5
        /\ \A k \in 1..Len(block.seqs) :
             block.seqs[k].match =>
               block.seqs[k].literal_end + block.seqs[k].extra_bytes + MINMATCH
                 <= Len(input) - 5

\* A block whose last match ends exactly 5 bytes before the end of the
\* input, decoded again
LastFiveLiteralWitness ==
  /\ stage = "done"
  /\ Len(block.seqs) >= 2
  /\ block.seqs[Len(block.seqs) - 1].match
  /\ (LET q == block.seqs[Len(block.seqs) - 1]
      IN  q.literal_end + q.extra_bytes + MINMATCH) = Len(input) - 5
  /\ dec.output = input

\* C18 as claimed: the last match of the block compress2 wrote ends at least
\* 12 bytes before the end of the input.
LastMatchEndsBeforeGuard ==
  stage # "compress" =>
    \A k \in 1..Len(block.seqs) :
      block.seqs[k].match /\ (\A j \in (k + 1)..Len(block.seqs) : ~block.seqs[j].match)
        => block.seqs[k].literal_end + block.seqs[k].extra_bytes + MINMATCH
             <= Len(input) - 12

\* C18 as amended: the last match of the block compress2 wrote starts at
\* least 12 bytes before the end of the input.
LastMatchStartsBeforeGuard ==
  stage # "compress" =>
    \A k \in 1..Len(block.seqs) :
      block.seqs[k].match /\ (\A j \in (k + 1)..Len(block.seqs) : ~block.seqs[j].match)
        => block.seqs[k].literal_end <= Len(input) - 12

\* A block whose last match starts exactly 12 bytes before the end of the
\* input and ends less than 12 bytes before it
LastMatchStartsWitness ==
  /\ stage = "done"
  /\ Len(block.seqs) >= 2
  /\ block.seqs[Len(block.seqs) - 1].match
  /\ block.seqs[Len(block.seqs) - 1].literal_end = Len(input) - 12
  /\ (LET q == block.seqs[Len(block.seqs) - 1]
      IN  q.literal_end + q.extra_bytes + MINMATCH) > Len(input) - 12
  /\ dec.output = input

\* C19: the tail guard.  compress2 ends every block with one literal-only
\* sequence: a token with match nibble 0, the LSIC extension of the literal
\* length, and the bytes from the start of the last literal run to the end
\* of the input, with no offset after them; an input shorter than 12 bytes
\* is encoded as that one sequence alone.
TailGuardSequence ==
  stage # "compress" =>
    /\ Len(block.seqs) >= 1
    /\ LET last == block.seqs[Len(block.seqs)]
           n == Len(input) - last.literal_start
           tail == <<Min(n, 15) * 16>> \o (IF n >= 15 THEN <<n - 15>> ELSE <<>>)
                     \o Slice(input, last.literal_start, Len(input))
           buf == block.w.buf
       IN  /\ ~last.match
           /\ last.literal_end = Len(input)
           /\ Len(buf) >= Len(tail)
           /\ Slice(buf, Len(buf) - Len(tail), Len(buf)) = tail
           /\ Len(input) < TailGuard => Len(block.seqs) = 1 /\ buf = tail

----------------------------------------------------------------------------
(* Properties of copy_overlapping *)

\* C20: copy_overlapping agrees with the byte-wise copy.  For every prefix,
\* output, match length and offset from 1 to prefix.len() + output.len(),
\* copy_overlapping returns Ok, leaves the bytes the output held in place and
\* appends the match_len bytes that copying one byte at a time from offset
\* places before the end of prefix ++ output gives, on every path.
CopyAgreesWithBytewise ==
  stage = "done" /\ dec.offset >= 1 /\ dec.offset <= Len(prefix) + Len(input) =>
    /\ dec.result = "Ok"
    /\ Len(dec.output) = Len(input) + dec.match_len
    /\ SubSeq(dec.output, 1, Len(input)) = input
    /\ prefix \o dec.output =
         CopyBytewise(prefix \o input, Len(prefix) + Len(input), dec.offset,
                      dec.match_len, 0)

\* A match of offset 4 that starts in the prefix, goes on in the output and
\* repeats for more than the 16 bytes of the staging buffer
CopyAgreesWitness ==
  /\ stage = "done"
  /\ dec.result = "Ok"
  /\ dec.offset = 4
  /\ Len(input) < 4
  /\ input # <<>>
  /\ dec.match_len > 16 + 4 - Len(input)

----------------------------------------------------------------------------
(* Properties of the reader's carryover window *)

----------------------------------------------------------------------------
(* Properties of the writer's table *)

\* C22: sliding the hash table.  With dependent blocks, after the writer
\* has dropped the leading d bytes of its input buffer and called
\* table.offset(d), the slots of the table hold what they held, and replace
\* on the bytes at index q of the trimmed buffer returns p - d where replace
\* on the same bytes (index q + d) before the drop returned p >= d, and 0,
\* as for a slot never written, where it returned p < d.
TableSlides ==
  ~settings.independent_blocks /\ wr.blocks # <<>> /\ wr.result \in {"", "Ok"} =>
    LET b == wr.blocks[Len(wr.blocks)]
        d == Len(b.in_buffer) - Len(wr.in_buffer)
    IN  /\ d = Max(Len(b.in_buffer) - WINDOW_SIZE, 0)
        /\ wr.in_buffer = Slice(b.in_buffer, d, Len(b.in_buffer))
        /\ wr.table.dict = b.table.dict
        /\ wr.table.offset = b.table.offset + d
        /\ \A q \in 0..(Len(wr.in_buffer) - 1) :
             LET p == replace(b.table, b.in_buffer, q + d).value
             IN  replace(wr.table, wr.in_buffer, q).value = IF p >= d THEN p - d ELSE 0

\* A table that slid for the second time, with an entry that moved with the
\* buffer and an entry for bytes that were dropped
TableSlidesWitness ==
  /\ ~settings.independent_blocks /\ wr.blocks # <<>> /\ wr.result = ""
  /\ LET b == wr.blocks[Len(wr.blocks)]
         d == Len(b.in_buffer) - Len(wr.in_buffer)
     IN  /\ d > 0
         /\ b.table.offset > 0
         /\ \E q \in 0..(Len(wr.in_buffer) - 1) :
              replace(b.table, b.in_buffer, q + d).value > d
         /\ \E q \in 0..(Len(wr.in_buffer) - 1) :
              LET p == replace(b.table, b.in_buffer, q + d).value
              IN  p > 0 /\ p < d

----------------------------------------------------------------------------
(* Properties of the blocks of a frame *)

\* C23: block independence.  With independent_blocks on, the bytes written
\* for every block (length prefix, payload, block checksum) are those that a
\* first block of the same plaintext gets from the dictionary and the
\* settings alone: they depend on nothing the earlier blocks held.
BlocksIndependent ==
  settings.independent_blocks =>
    \A i \in 1..Len(wr.blocks) :
      LET b == wr.blocks[i]
          len == 4 + Len(b.payload) + (IF settings.block_checksums THEN 4 ELSE 0)
      IN  Slice(wire, b.at, b.at + len) =
            BlockBytes(EncodeBlock(settings.dictionary \o b.plain,
                                   Len(settings.dictionary),
                                   TemplateTable(settings.dictionary, 0,
                                                 U32Table_default)),
                       settings.block_checksums)

\* A frame of independent blocks with a dictionary whose second block holds
\* other bytes than the first and was encoded with a match
BlocksIndependentWitness ==
  /\ settings.independent_blocks
  /\ settings.dictionary # <<>>
  /\ wr.result = "Ok"
  /\ Len(wr.blocks) >= 2
  /\ ~wr.blocks[2].stored
  /\ \E k \in 1..Len(wr.blocks[2].seqs) : wr.blocks[2].seqs[k].match
  /\ wr.blocks[2].plain # wr.blocks[1].plain

----------------------------------------------------------------------------
(* Properties of the LSIC encoding *)

\* C24: LSIC round trip.  For every length v, the nibble min(v, 15) is
\* followed by no byte when v < 15 and else by (v - 15) div 255 bytes 0xFF
\* and one byte (v - 15) mod 255, which is not 0xFF, and read_lsic reads v
\* back from the nibble and these bytes, stopping right after them.
LsicRoundTrip ==
  LET v == Len(input)
      tail == IF v < 15 THEN <<>>
              ELSE Fill(255, (v - 15) \div 255) \o <<(v - 15) % 255>>
  IN  /\ stage # "compress" =>
           /\ block.w.buf = <<Min(v, 15) * 16>> \o tail \o input
           /\ tail # <<>> => tail[Len(tail)] # 255
      /\ stage = "done" =>
           /\ dec.phase = "literals"
           /\ dec.literal_length = v
           /\ dec.pos = 1 + Len(tail)

\* A length for which write_lsic_tail wrote four 0xFF at once, then one
\* 0xFF, then the last byte
LsicRoundTripWitness ==
  /\ stage = "done"
  /\ Len(input) >= 15 + 4 * 255 + 255
  /\ dec.literal_length = Len(input)
  /\ block.w.buf[7] # 255

\* C25: block splitting.  The k-th block the writer emits holds the k-th
\* block_size chunk of the plaintext: block_size bytes, or the 1 to
\* block_size bytes that are left for the last block; a finished frame has
\* one block per chunk and none for no bytes; and the k-th decode_block call
\* returns exactly the k-th chunk.
BlockSplitting ==
  LET bs == settings.block_size
      chunk(k) == Slice(plaintext, (k - 1) * bs, Min(k * bs, Len(plaintext)))
  IN  /\ \A k \in 1..Len(wr.blocks) :
           /\ wr.blocks[k].plain = chunk(k)
           /\ Len(wr.blocks[k].plain) >= 1
           /\ Len(wr.blocks[k].plain) = bs \/ k * bs >= Len(plaintext)
      /\ wr.result = "Ok" => Len(wr.blocks) * bs >= Len(plaintext)
      /\ cl.call = "decode_block" /\ ~cl.finished_before =>
           LET done == Len(cl.decoded) - Len(cl.out)
               k == (done \div bs) + 1
           IN  /\ cl.err = ""
               /\ IF fr.finished
                  THEN cl.out = <<>> /\ done = Len(plaintext)
                  ELSE /\ done % bs = 0
                       /\ cl.out = chunk(k)
                       /\ cl.pos_before = wr.blocks[k].at

\* The third decode_block call of a frame of three blocks, the last of them
\* shorter than a block
BlockSplittingWitness ==
  /\ cl.call = "decode_block"
  /\ ~fr.finished
  /\ Len(wr.blocks) = 3
  /\ cl.decoded = plaintext
  /\ cl.out = wr.blocks[3].plain
  /\ Len(cl.out) < settings.block_size

----------------------------------------------------------------------------
(* Properties of the LZ4FrameIoReader *)

\* C26: end of stream only at the end of the frame.  A read with a
\* non-empty buffer or a fill_buf that returns no bytes and no error has
\* left the frame finished: the end marker was read and the content
\* checksum, if there is one, verified.
EndOfStreamOnlyAtEnd ==
  cl.call \in {"read", "fill_buf"} /\ cl.err = "" /\ ~cl.panic /\ cl.out = <<>>
    => fr.finished

\* C27: the LZ4FrameIoReader hands out verified plaintext only.  The bytes
\* a read or a fill_buf returns come from a buffer that a decode_block call
\* which returned Ok has filled, never from what a failed call left there.
OnlyVerifiedBytes ==
  cl.call \in {"read", "fill_buf"} /\ cl.out # <<>> => cl.buffer_ok

----------------------------------------------------------------------------
(* Properties of the values the table stores *)

\* C28: table values never overflow their slot.  With dependent blocks,
\* compress never panics, whatever the length of the plaintext: every
\* position given to replace, added to the offset of the table, fits a slot.
SlotsNeverOverflow ==
  ~settings.independent_blocks => wr.result # "panic"

----------------------------------------------------------------------------
(* Properties of the frame compress writes *)

\* C29: frame layout on the wire.  A successful compress has written the
\* header, then one block after the other for the non-empty chunks of the
\* plaintext, each with a length prefix that is not zero, holds the length
\* of the payload (at least 1) and has its high bit set exactly for a
\* stored block, each payload followed, with block checksums, by the xxh32
\* of the payload as written; then one zero marker; then the xxh32 of the
\* plaintext if and only if the content checksum is enabled; and nothing
\* more.
FrameLayout ==
  wr.result = "Ok" =>
    LET header == FrameHeader(settings, content_size).bytes
        n == Len(wr.blocks)
        bc == IF settings.block_checksums THEN 4 ELSE 0
        after(k) == wr.blocks[k].at + 4 + Len(wr.blocks[k].payload) + bc
        end == IF n = 0 THEN Len(header) ELSE after(n)
    IN  /\ Slice(wire, 0, Len(header)) = header
        /\ n * settings.block_size >= Len(plaintext)
        /\ (n - 1) * settings.block_size < Len(plaintext) \/ n = 0
        /\ \A k \in 1..n :
             LET b == wr.blocks[k]
                 len_bytes == Slice(wire, b.at, b.at + 4)
                 payload == Slice(wire, b.at + 4, b.at + 4 + Len(b.payload))
             IN  /\ b.at = IF k = 1 THEN Len(header) ELSE after(k - 1)
                 /\ len_bytes # <<0, 0, 0, 0>>
                 /\ BlockLength(len_bytes) = Len(b.payload)
                 /\ Len(b.payload) >= 1
                 /\ len_bytes[4] >= INCOMPRESSIBLE_BIT <=> b.stored
                 /\ payload = b.payload
                 /\ b.stored => payload = b.plain
                 /\ settings.block_checksums =>
                      Slice(wire, after(k) - 4, after(k)) = xxh32(payload)
        /\ Slice(wire, end, end + 4) = <<0, 0, 0, 0>>
        /\ IF settings.content_checksum
           THEN /\ Len(wire) = end + 8
                /\ Slice(wire, end + 4, end + 8) = xxh32(plaintext)
           ELSE Len(wire) = end + 4

\* A frame with block checksums and a content checksum whose first block is
\* stored and whose second is encoded
FrameLayoutWitness ==
  /\ wr.result = "Ok"
  /\ settings.block_checksums /\ settings.content_checksum
  /\ Len(wr.blocks) >= 2
  /\ wr.blocks[1].stored
  /\ ~wr.blocks[2].stored

----------------------------------------------------------------------------
(* Properties of a failed block checksum *)

\* C30: a block checksum failure changes nothing the caller sees of the
\* decoder.  When decode_block returns BlockChecksumFail the output buffer
\* is still empty, and the carryover window and the running content hash
\* are what they were before the call.
ChecksumFailChangesNothing ==
  cl.call = "decode_block" /\ cl.err = "BlockChecksumFail" =>
    /\ cl.out = <<>>
    /\ fr.carryover_window = cl.window_before
    /\ fr.content_hasher = cl.hasher_before

\* The second block of a frame of dependent blocks with a content checksum
\* fails its checksum: the window and the hash hold the first block
ChecksumFailWitness ==
  /\ cl.call = "decode_block" /\ cl.err = "BlockChecksumFail"
  /\ tampered = "data"
  /\ cl.decoded # <<>>
  /\ fr.carryover_window.some /\ fr.carryover_window.data # <<>>
  /\ fr.content_hasher.some /\ fr.content_hasher.data = cl.decoded

====
